---- MODULE Spec2Model ----
(***************************************************************************)
(* The request authenticators and the client cache of api_wrapper/auth.py, *)
(* and the session-token codec of api_wrapper/jwt_utils.py.                *)
(*                                                                         *)
(* A request is a coroutine: it runs without interruption between two      *)
(* awaits, so every action below is one segment of a coroutine, from the   *)
(* point where it is resumed to the next await (or to its end).            *)
(* Strings are sequences of one-character strings, so that slicing and     *)
(* concatenation are computed as Python computes them.  An optional        *)
(* header is <<>> when it is None and <<s>> when it carries the string s.  *)
(***************************************************************************)
EXTENDS Integers, Sequences, FiniteSets, TLC

\* Number of requests the authenticators receive in one run.
NReq == 2

Requests == 1..NReq

\* ACCESS_TOKEN_EXPIRE_MINUTES when the environment does not set it
DefaultExpireMinutes == 720

(***************************************************************************)
(* Python values                                                           *)
(***************************************************************************)
NoHeader == <<>>
Header(s) == <<s>>

\* bool(x) of an Optional[str]: None and "" are falsy.
Truthy(h) == h # NoHeader /\ h[1] # <<>>

\* s[:n]
Take(s, n) == SubSeq(s, 1, IF Len(s) < n THEN Len(s) ELSE n)

\* [c] * n
Repeat(c, n) == [i \in 1..n |-> c]

Range(f) == {f[x] : x \in DOMAIN f}

(***************************************************************************)
(* Cache keys                                                              *)
(***************************************************************************)
PlainKeyPrefixLen == 16
HeaderKeyPrefixLen == 16
ClientIdPrefixLen == 8

REDDIT_ == <<"r", "e", "d", "d", "i", "t", "_">>
TOKEN_ == <<"t", "o", "k", "e", "n", "_">>

\* f"reddit_token_{access_token[:16]}"
get_reddit_client_key(access_token) ==
    REDDIT_ \o TOKEN_ \o Take(access_token, PlainKeyPrefixLen)

\* the header variant drops the app id from the key
headers_key_without_client_id(access_token, x_reddit_client_id) ==
    REDDIT_ \o Take(access_token, HeaderKeyPrefixLen)

\* f"reddit_{'_'.join(cache_key_parts)}"
get_reddit_client_with_headers_key(access_token, x_reddit_client_id) ==
    IF Truthy(x_reddit_client_id)
    THEN REDDIT_ \o Take(access_token, HeaderKeyPrefixLen) \o <<"_">>
             \o Take(x_reddit_client_id[1], ClientIdPrefixLen)
    ELSE REDDIT_ \o Take(access_token, HeaderKeyPrefixLen)

\* the branch of the constructor call: with the app credentials, or token-only
built_with_credentials(x_reddit_client_id, x_reddit_client_secret) ==
    Truthy(x_reddit_client_id) /\ Truthy(x_reddit_client_secret)

(***************************************************************************)
(* Inputs of the requests                                                  *)
(***************************************************************************)
\* two bearers that agree on their first 16 characters, and a short one
TokA == Repeat("a", 16) \o <<"1">>
TokB == Repeat("a", 16) \o <<"2">>
TokC == <<"b">>
CidA == Repeat("c", 8) \o <<"1">>
SecA == <<"s">>

PlainInputs ==
    {[fn |-> "get_reddit_client", access_token |-> t,
      x_reddit_client_id |-> NoHeader, x_reddit_client_secret |-> NoHeader]
        : t \in {TokA, TokB, TokC}}

HeaderInputs ==
    {[fn |-> "get_reddit_client_with_headers", access_token |-> TokA,
      x_reddit_client_id |-> c, x_reddit_client_secret |-> s]
        : c \in {NoHeader, Header(CidA)}, s \in {NoHeader, Header(SecA)}}
    \cup
    {[fn |-> "get_reddit_client_with_headers", access_token |-> TokA,
      x_reddit_client_id |-> Header(<<>>), x_reddit_client_secret |-> Header(SecA)]}

KeyOf(inp) ==
    IF inp.fn = "get_reddit_client"
    THEN get_reddit_client_key(inp.access_token)
    ELSE get_reddit_client_with_headers_key(inp.access_token, inp.x_reddit_client_id)

(***************************************************************************)
(* State                                                                   *)
(***************************************************************************)
VARIABLES
    cache,      \* _reddit_client_cache: cache key -> handle
    handles,    \* every asyncpraw.Reddit object constructed so far
    rq,         \* the requests: position, locals and outcome of each
    cleared,    \* clear_reddit_client_cache has been called
    now,        \* the clock the codec reads, in minutes
    token,      \* the session token at hand
    origin,     \* how the token at hand was made
    given,      \* the data the token at hand was issued for
    out,        \* the outcome of the decoding applied to the token at hand
    advances,   \* number of times the clock has moved
    ACCESS_TOKEN_EXPIRE_MINUTES,  \* the configuration jwt_utils.py read at import
    fl          \* the invocation of an auth endpoint: position, locals, response

auth_vars == <<cache, handles, rq, cleared>>
jwt_vars == <<now, token, origin, given, out, advances, ACCESS_TOKEN_EXPIRE_MINUTES>>
flow_vars == <<fl>>
vars ==
    <<cache, handles, rq, cleared, now, token, origin, given, out, advances,
      ACCESS_TOKEN_EXPIRE_MINUTES, fl>>

IdleRequest ==
    [pc |-> "idle", fn |-> "-", access_token |-> <<>>,
     x_reddit_client_id |-> NoHeader, x_reddit_client_secret |-> NoHeader,
     cache_key |-> <<>>, reddit |-> 0,
     stale |-> 0,             \* the cached handle whose probe failed
     cached_probe |-> "-",    \* outcome of the probe of the cached handle
     new_probe |-> "-",       \* outcome of the probe of the new handle
     attempted |-> FALSE,     \* the constructor was called
     status |-> 0, detail |-> "-", result |-> 0,
     disturbed |-> FALSE]     \* another request or a clear ran during this one

InFlight(r) == rq[r].pc \notin {"idle", "done"}

\* no token at hand yet, and no decoding applied to the token at hand
NoToken == [payload |-> [x \in {} |-> 0], signed |-> [x \in {} |-> 0], key |-> "-"]
NoOut == [op |-> "-", status |-> 0, detail |-> "-", value |-> [x \in {} |-> 0]]

\* no endpoint invoked yet
IdleFlow ==
    [fn |-> "-", pc |-> "idle", request |-> [x \in {} |-> 0],
     reddit |-> 0,           \* asyncpraw.Reddit objects the invocation constructed
     construct |-> "-",      \* what the constructor did: "ok" or "raises"
     closes |-> 0,           \* calls of reddit.close()
     exchanges |-> 0,        \* calls of reddit.auth.authorize
     probes |-> 0,           \* calls of reddit.user.me
     exchange |-> "-",       \* what reddit.auth.authorize gave
     probe |-> "-",          \* what reddit.user.me gave
     parent |-> "-",         \* what comment.parent gave
     status |-> 0, detail |-> "-", body |-> [x \in {} |-> 0]]

Init ==
    /\ cache = [k \in {} |-> 0]
    /\ handles = <<>>
    /\ rq = [r \in Requests |-> IdleRequest]
    /\ cleared = FALSE
    /\ now = 0
    /\ token = NoToken
    /\ origin = "-"
    /\ given = [x \in {} |-> 0]
    /\ out = NoOut
    /\ advances = 0
    /\ ACCESS_TOKEN_EXPIRE_MINUTES = DefaultExpireMinutes
    /\ fl = IdleFlow

\* del _reddit_client_cache[cache_key]
CacheDel(c, k) == [x \in DOMAIN c \ {k} |-> c[x]]

\* _reddit_client_cache[cache_key] = reddit
CacheSet(c, k, h) == [x \in DOMAIN c \cup {k} |-> IF x = k THEN h ELSE c[x]]

\* a lookup that never finds the entry
LookupNever(c, k) == FALSE

\* cache_key in _reddit_client_cache
Lookup(c, k) == k \in DOMAIN c

\* get_cached_client_count()
get_cached_client_count == Cardinality(DOMAIN cache)

\* asyncpraw.Reddit(...) followed by the injection of the bearer
NewHandle(r, q) ==
    [owner |-> r,
     with_credentials |->
         q.fn = "get_reddit_client_with_headers"
         /\ built_with_credentials(q.x_reddit_client_id, q.x_reddit_client_secret),
     access_token |-> q.access_token,
     cache_key |-> q.cache_key,
     probed_ok |-> FALSE,
     closes |-> 0]

\* The request ends with an HTTPException.
Fail(q, code, why) ==
    [q EXCEPT !.pc = "done", !.status = code, !.detail = why]

\* The request ends and hands h to the endpoint.
Return(q, h) ==
    [q EXCEPT !.pc = "done", !.status = 200, !.result = h]

(***************************************************************************)
(* Segments of the authenticator coroutines                                *)
(***************************************************************************)
\* asyncpraw.Reddit(...) and the injection of the bearer, run by request r
\* whose record is q, with the cache already brought to c.  The constructor
\* either returns a handle, whose probe is then awaited, or raises, and the
\* outer handler turns whatever it raised into a 401.
Construct(r, q, c, constructed) ==
    /\ cache' = c
    /\ UNCHANGED cleared
    /\ IF constructed
       THEN /\ handles' = Append(handles, NewHandle(r, q))
            /\ rq' = [rq EXCEPT ![r] = [q EXCEPT !.attempted = TRUE,
                                                 !.pc = "probe_new",
                                                 !.reddit = Len(handles) + 1]]
       ELSE /\ UNCHANGED handles
            /\ rq' = [rq EXCEPT ![r] = Fail([q EXCEPT !.attempted = TRUE], 401,
                                            "Authentication failed")]

\* From the entry of the function to the first await: the key, the lookup,
\* and on a miss the construction.
Enter(r, inp, constructed) ==
    LET busy == {s \in Requests : InFlight(s)}
        q == [IdleRequest EXCEPT
                 !.fn = inp.fn, !.access_token = inp.access_token,
                 !.x_reddit_client_id = inp.x_reddit_client_id,
                 !.x_reddit_client_secret = inp.x_reddit_client_secret,
                 !.cache_key = KeyOf(inp),
                 !.disturbed = busy # {}]
        others == [s \in Requests |->
                      IF s \in busy THEN [rq[s] EXCEPT !.disturbed = TRUE] ELSE rq[s]]
    IN  /\ rq[r].pc = "idle"
        /\ IF r = 1 THEN TRUE ELSE rq[r - 1].pc # "idle"
        /\ UNCHANGED <<cache, cleared>>
        /\ IF Lookup(cache, q.cache_key)
           THEN /\ rq' = [others EXCEPT ![r] = [q EXCEPT !.pc = "probe_cached",
                                                  !.reddit = cache[q.cache_key]]]
                /\ UNCHANGED handles
           ELSE IF constructed
           THEN /\ rq' = [others EXCEPT ![r] = [q EXCEPT !.attempted = TRUE,
                                                  !.pc = "probe_new",
                                                  !.reddit = Len(handles) + 1]]
                /\ handles' = Append(handles, NewHandle(r, q))
           ELSE /\ rq' = [others EXCEPT ![r] = Fail([q EXCEPT !.attempted = TRUE],
                                                    401, "Authentication failed")]
                /\ UNCHANGED handles

get_reddit_client(r) ==
    \E inp \in PlainInputs, constructed \in BOOLEAN : Enter(r, inp, constructed)

get_reddit_client_with_headers(r) ==
    \E inp \in HeaderInputs, constructed \in BOOLEAN : Enter(r, inp, constructed)

\* a live cached handle is returned, and its entry dropped all the same
CachedProbeLiveEvicts(r) ==
    /\ rq[r].pc = "probe_cached"
    /\ rq' = [rq EXCEPT ![r] = Return([rq[r] EXCEPT !.cached_probe = "ok"],
                                      rq[r].reddit)]
    /\ cache' = [x \in DOMAIN cache \ {rq[r].cache_key} |-> cache[x]]
    /\ UNCHANGED <<handles, cleared>>

\* The probe of the cached handle returned an identity: the handle is returned.
CachedProbeLive(r) ==
    /\ rq[r].pc = "probe_cached"
    /\ rq' = [rq EXCEPT ![r] = Return([rq[r] EXCEPT !.cached_probe = "ok"],
                                      rq[r].reddit)]
    /\ UNCHANGED <<cache, handles, cleared>>

\* the handler forgets the eviction
KeepAfterRaise(c, k) == c

\* The cache after the probe of the cached handle raised.
EvictAfterRaise(c, k) == IF k \in DOMAIN c THEN CacheDel(c, k) ELSE c

\* the else branch forgets the eviction
KeepAfterNone(c, k) == c

\* The cache after the probe of the cached handle returned None: the entry is
\* deleted without a look at the cache.  When the key has gone meanwhile the
\* del raises KeyError inside the try of the probe, and the handler of that
\* try, the one that runs when the probe raises, takes over.
EvictAfterNone(c, k) == IF k \in DOMAIN c THEN CacheDel(c, k) ELSE EvictAfterRaise(c, k)

\* The probe of the cached handle returned None: the entry is deleted and the
\* call goes on to the constructor.
CachedProbeNone(r) ==
    /\ rq[r].pc = "probe_cached"
    /\ LET q == [rq[r] EXCEPT !.cached_probe = "none", !.stale = rq[r].reddit]
       IN  \E constructed \in BOOLEAN :
               Construct(r, q, EvictAfterNone(cache, q.cache_key), constructed)

\* The probe of the cached handle raised: the entry is deleted if still there.
CachedProbeRaises(r) ==
    /\ rq[r].pc = "probe_cached"
    /\ LET q == [rq[r] EXCEPT !.cached_probe = "raise", !.stale = rq[r].reddit]
       IN  \E constructed \in BOOLEAN :
               Construct(r, q, EvictAfterRaise(cache, q.cache_key), constructed)

\* The handle once its probe returned an identity.
Probed(h) == [h EXCEPT !.probed_ok = TRUE]

\* the first handle stored under a key stays
StoreNewKeepFirst(c, q) ==
    IF q.cache_key \in DOMAIN c THEN c ELSE CacheSet(c, q.cache_key, q.reddit)

\* the new handle is returned without being stored
StoreNewNothing(c, q) == c

\* The cache after the probe of the new handle of request q succeeded.
StoreNew(c, q) == CacheSet(c, q.cache_key, q.reddit)

\* The probe of the new handle returned an identity: cache it and return it.
NewProbeOk(r) ==
    /\ rq[r].pc = "probe_new"
    /\ handles' = [handles EXCEPT ![rq[r].reddit] = Probed(@)]
    /\ cache' = StoreNew(cache, rq[r])
    /\ rq' = [rq EXCEPT ![r] = Return([rq[r] EXCEPT !.new_probe = "ok"],
                                      rq[r].reddit)]
    /\ UNCHANGED cleared

\* close() is never called
NotClosed(h, n) == h

\* reddit.close(), n times
Closed(h, n) == [h EXCEPT !.closes = @ + n]

\* the new handle is stored before the identity is looked at
NewProbeNoneStores(r) ==
    /\ rq[r].pc = "probe_new"
    /\ handles' = [handles EXCEPT ![rq[r].reddit] = Closed(@, 2)]
    /\ cache' = CacheSet(cache, rq[r].cache_key, rq[r].reddit)
    /\ rq' = [rq EXCEPT ![r] = Fail([rq[r] EXCEPT !.new_probe = "none"], 401,
                                    "Reddit authentication failed")]
    /\ UNCHANGED cleared

\* The probe of the new handle returned None: close() in the try, and the
\* HTTPException raised next is an Exception, so the handler of the same try
\* catches it, calls close() again and raises the 401 that leaves.
NewProbeNone(r) ==
    /\ rq[r].pc = "probe_new"
    /\ handles' = [handles EXCEPT ![rq[r].reddit] = Closed(@, 2)]
    /\ rq' = [rq EXCEPT ![r] = Fail([rq[r] EXCEPT !.new_probe = "none"], 401,
                                    "Reddit authentication failed")]
    /\ UNCHANGED <<cache, cleared>>

\* the probe of the new handle is awaited again after it raised
NewProbeRaisesRetries(r) ==
    /\ rq[r].pc = "probe_new"
    /\ rq' = [rq EXCEPT ![r].new_probe = "raise"]
    /\ UNCHANGED <<cache, handles, cleared>>

\* The probe of the new handle raised: close() in the handler, then the 401.
NewProbeRaises(r) ==
    /\ rq[r].pc = "probe_new"
    /\ handles' = [handles EXCEPT ![rq[r].reddit] = Closed(@, 1)]
    /\ rq' = [rq EXCEPT ![r] = Fail([rq[r] EXCEPT !.new_probe = "raise"], 401,
                                    "Reddit authentication failed")]
    /\ UNCHANGED <<cache, cleared>>

\* _reddit_client_cache.clear()
clear_reddit_client_cache ==
    /\ cache' = [k \in {} |-> 0]
    /\ cleared' = TRUE
    /\ rq' = [s \in Requests |->
                 IF InFlight(s) THEN [rq[s] EXCEPT !.disturbed = TRUE] ELSE rq[s]]
    /\ UNCHANGED handles

Next ==
    \/ \E r \in Requests : get_reddit_client(r) /\ UNCHANGED <<jwt_vars, flow_vars>>
    \/ \E r \in Requests : get_reddit_client_with_headers(r) /\ UNCHANGED <<jwt_vars, flow_vars>>
    \/ \E r \in Requests : CachedProbeLive(r) /\ UNCHANGED <<jwt_vars, flow_vars>>
    \/ \E r \in Requests : CachedProbeNone(r) /\ UNCHANGED <<jwt_vars, flow_vars>>
    \/ \E r \in Requests : CachedProbeRaises(r) /\ UNCHANGED <<jwt_vars, flow_vars>>
    \/ \E r \in Requests : NewProbeOk(r) /\ UNCHANGED <<jwt_vars, flow_vars>>
    \/ \E r \in Requests : NewProbeNone(r) /\ UNCHANGED <<jwt_vars, flow_vars>>
    \/ \E r \in Requests : NewProbeRaises(r) /\ UNCHANGED <<jwt_vars, flow_vars>>
    \/ clear_reddit_client_cache /\ UNCHANGED <<jwt_vars, flow_vars>>

Spec == Init /\ [][Next]_vars

\* The process after an earlier call of get_reddit_client with the bearer
\* TokA has built a handle, probed it, stored it and returned it.
WarmHandle ==
    [owner |-> 0, with_credentials |-> FALSE, access_token |-> TokA,
     cache_key |-> get_reddit_client_key(TokA), probed_ok |-> TRUE, closes |-> 0]

InitWarm ==
    /\ cache = CacheSet([k \in {} |-> 0], get_reddit_client_key(TokA), 1)
    /\ handles = <<WarmHandle>>
    /\ rq = [r \in Requests |-> IdleRequest]
    /\ cleared = FALSE
    /\ now = 0
    /\ token = NoToken
    /\ origin = "-"
    /\ given = [x \in {} |-> 0]
    /\ out = NoOut
    /\ advances = 0
    /\ ACCESS_TOKEN_EXPIRE_MINUTES = DefaultExpireMinutes
    /\ fl = IdleFlow

SpecWarm == InitWarm /\ [][Next]_vars

\* The await of reddit.user.me() of request r ends: the upstream returns an
\* identity, returns None or raises.
ProbeEnds(r) ==
    \/ CachedProbeLive(r) \/ CachedProbeNone(r) \/ CachedProbeRaises(r)
    \/ NewProbeOk(r) \/ NewProbeNone(r) \/ NewProbeRaises(r)

\* Every upstream call returns or raises in the end; the event loop resumes
\* the coroutine that awaited it.
SpecLive ==
    /\ Init /\ [][Next]_vars
    /\ \A r \in Requests : WF_vars(ProbeEnds(r) /\ UNCHANGED <<jwt_vars, flow_vars>>)

(***************************************************************************)
(* The session-token codec (jwt_utils.py)                                  *)
(*                                                                         *)
(* A token is the payload together with the signature jose computes over   *)
(* it: the payload that was signed and the key it was signed with.         *)
(* jwt.decode accepts a token when the signature is the one SECRET_KEY     *)
(* gives for the payload it carries and the clock has not passed exp.      *)
(***************************************************************************)
\* Number of times the clock moves in one run.
MaxAdvances == 3

HTTP_401_UNAUTHORIZED == 401
SECRET_KEY == "JWT_SECRET_KEY"

Empty == [x \in {} |-> 0]

\* d1 updated with d2 (dict.update)
Update(d1, d2) ==
    [f \in DOMAIN d1 \cup DOMAIN d2 |-> IF f \in DOMAIN d2 THEN d2[f] ELSE d1[f]]

\* jwt.encode(payload, key)
Encode(payload, key) == [payload |-> payload, signed |-> payload, key |-> key]

\* create_access_token(data, expires_delta) at time t; a ttl of -1 stands for
\* expires_delta=None, and timedelta(0) is falsy like None.
create_access_token(data, expires_delta, t) ==
    LET expire == IF expires_delta > 0
                  THEN t + expires_delta
                  ELSE t + ACCESS_TOKEN_EXPIRE_MINUTES
    IN  Encode(Update(data, [exp |-> expire]), SECRET_KEY)

\* create_reddit_token(client_id, client_secret, username, password, user_agent)
create_reddit_token(client_id, client_secret, username, password, user_agent, t) ==
    create_access_token(
        [reddit_client_id |-> client_id, reddit_client_secret |-> client_secret,
         reddit_username |-> username, reddit_password |-> password,
         reddit_user_agent |-> user_agent, token_type |-> "reddit_access"], -1, t)

\* a refresh token whose payload carries the user agent in the place of the
\* refresh token
create_refresh_token_misfiled(client_id, client_secret, user_agent, refresh_token, t) ==
    create_access_token(
        [reddit_client_id |-> client_id, reddit_client_secret |-> client_secret,
         reddit_user_agent |-> user_agent, reddit_refresh_token |-> user_agent,
         token_type |-> "reddit_refresh_access"], -1, t)

\* create_refresh_token(client_id, client_secret, user_agent, refresh_token)
create_refresh_token(client_id, client_secret, user_agent, refresh_token, t) ==
    create_access_token(
        [reddit_client_id |-> client_id, reddit_client_secret |-> client_secret,
         reddit_user_agent |-> user_agent, reddit_refresh_token |-> refresh_token,
         token_type |-> "reddit_refresh_access"], -1, t)

Ok(v) == [status |-> 200, detail |-> "-", value |-> v]
Raise(code, why) == [status |-> code, detail |-> why, value |-> Empty]

\* jwt.decode raises a JWTError: bad signature, or exp in the past
DecodeFails(tok, t) ==
    \/ tok.key # SECRET_KEY
    \/ tok.signed # tok.payload
    \/ ("exp" \in DOMAIN tok.payload /\ tok.payload["exp"] < t)

\* verify_token(token) at time t
verify_token(tok, t) ==
    IF DecodeFails(tok, t)
    THEN Raise(HTTP_401_UNAUTHORIZED, "Could not validate credentials")
    ELSE Ok(tok.payload)

\* payload.get("token_type")
TokenType(payload) ==
    IF "token_type" \in DOMAIN payload THEN payload["token_type"] ELSE "None"

\* the last field of the list that the payload lacks, "" if it has them all
LastMissing(required_fields, payload) ==
    LET lacking == {i \in 1..Len(required_fields) :
                        required_fields[i] \notin DOMAIN payload}
    IN  IF lacking = {} THEN ""
        ELSE required_fields[CHOOSE i \in lacking : \A j \in lacking : j <= i]

\* the first field of the list that the payload lacks, "" if it has them all
RECURSIVE FirstMissing(_, _)
FirstMissing(required_fields, payload) ==
    IF required_fields = <<>> THEN ""
    ELSE IF Head(required_fields) \notin DOMAIN payload THEN Head(required_fields)
    ELSE FirstMissing(Tail(required_fields), payload)

RefreshFields ==
    <<"reddit_client_id", "reddit_client_secret", "reddit_user_agent",
      "reddit_refresh_token">>

LegacyFields ==
    <<"reddit_client_id", "reddit_client_secret", "reddit_username",
      "reddit_password", "reddit_user_agent">>

\* the legacy extractor without its check of token_type
extract_reddit_untyped(tok, t) ==
    LET v == verify_token(tok, t)
        payload == v.value
        missing == FirstMissing(LegacyFields, payload)
    IN  IF v.status # 200 THEN v
        ELSE IF missing # ""
        THEN Raise(HTTP_401_UNAUTHORIZED, "Token missing required field: " \o missing)
        ELSE Ok([client_id |-> payload["reddit_client_id"],
                 client_secret |-> payload["reddit_client_secret"],
                 username |-> payload["reddit_username"],
                 password |-> payload["reddit_password"],
                 user_agent |-> payload["reddit_user_agent"]])

\* extract_reddit_credentials(token) at time t
extract_reddit_credentials(tok, t) ==
    LET v == verify_token(tok, t)
        payload == v.value
        missing == FirstMissing(LegacyFields, payload)
    IN  IF v.status # 200 THEN v
        ELSE IF TokenType(payload) # "reddit_access"
        THEN Raise(HTTP_401_UNAUTHORIZED, "Invalid token type")
        ELSE IF missing # ""
        THEN Raise(HTTP_401_UNAUTHORIZED, "Token missing required field: " \o missing)
        ELSE Ok([client_id |-> payload["reddit_client_id"],
                 client_secret |-> payload["reddit_client_secret"],
                 username |-> payload["reddit_username"],
                 password |-> payload["reddit_password"],
                 user_agent |-> payload["reddit_user_agent"]])

\* the extractor without its fallback to the legacy kind
extract_refresh_only(tok, t) ==
    LET v == verify_token(tok, t)
        payload == v.value
        missing == FirstMissing(RefreshFields, payload)
    IN  IF v.status # 200 THEN v
        ELSE IF TokenType(payload) # "reddit_refresh_access"
        THEN Raise(HTTP_401_UNAUTHORIZED, "Invalid token type")
        ELSE IF missing # ""
        THEN Raise(HTTP_401_UNAUTHORIZED, "Token missing required field: " \o missing)
        ELSE Ok([client_id |-> payload["reddit_client_id"],
                 client_secret |-> payload["reddit_client_secret"],
                 user_agent |-> payload["reddit_user_agent"],
                 refresh_token |-> payload["reddit_refresh_token"]])

\* extract_refresh_token_credentials(token) at time t
extract_refresh_token_credentials(tok, t) ==
    LET v == verify_token(tok, t)
        payload == v.value
        missing == FirstMissing(RefreshFields, payload)
    IN  IF v.status # 200 THEN v
        ELSE IF TokenType(payload) = "reddit_refresh_access"
        THEN IF missing # ""
             THEN Raise(HTTP_401_UNAUTHORIZED,
                        "Token missing required field: " \o missing)
             ELSE Ok([client_id |-> payload["reddit_client_id"],
                      client_secret |-> payload["reddit_client_secret"],
                      user_agent |-> payload["reddit_user_agent"],
                      refresh_token |-> payload["reddit_refresh_token"]])
        ELSE IF TokenType(payload) = "reddit_access"
        THEN extract_reddit_credentials(tok, t)
        ELSE Raise(HTTP_401_UNAUTHORIZED, "Invalid token type")

(***************************************************************************)
(* Inputs of the codec                                                     *)
(***************************************************************************)
ClientIds == {"cid1", "cid2"}
Usernames == {"alice", "bob"}
RefreshTokens == {"rt1", "rt2"}

LegacySets ==
    {[client_id |-> c, client_secret |-> "secret", username |-> u,
      password |-> "pw", user_agent |-> "ua"] : c \in ClientIds, u \in Usernames}

RefreshSets ==
    {[client_id |-> c, client_secret |-> "secret", user_agent |-> "ua",
      refresh_token |-> x] : c \in ClientIds, x \in RefreshTokens}

\* payloads handed to create_access_token directly: a refresh payload and a
\* legacy payload, whole or with one field left out, and other token types
FullRefresh ==
    [reddit_client_id |-> "cid1", reddit_client_secret |-> "secret",
     reddit_user_agent |-> "ua", reddit_refresh_token |-> "rt1",
     token_type |-> "reddit_refresh_access"]

FullLegacy ==
    [reddit_client_id |-> "cid1", reddit_client_secret |-> "secret",
     reddit_username |-> "alice", reddit_password |-> "pw",
     reddit_user_agent |-> "ua", token_type |-> "reddit_access"]

Without(d, f) == [x \in DOMAIN d \ {f} |-> d[x]]

RawPayloads ==
    {FullRefresh, FullLegacy}
    \cup {Without(FullRefresh, f) : f \in DOMAIN FullRefresh}
    \cup {Without(FullLegacy, f) : f \in DOMAIN FullLegacy}
    \cup {Without(Without(FullRefresh, "reddit_user_agent"), "reddit_client_secret")}
    \cup {[FullRefresh EXCEPT !["token_type"] = "bearer"]}

\* expires_delta: None (-1), timedelta(0), and two positive ones
Ttls == {-1, 0, 1, 2}

(***************************************************************************)
(* Operations of the codec                                                 *)
(***************************************************************************)
Issue(tok, how, data) ==
    /\ token' = tok
    /\ origin' = how
    /\ given' = data
    /\ out' = NoOut
    /\ UNCHANGED <<now, advances, ACCESS_TOKEN_EXPIRE_MINUTES>>

IssueLegacy ==
    \E d \in LegacySets :
        Issue(create_reddit_token(d.client_id, d.client_secret, d.username,
                                  d.password, d.user_agent, now),
              "create_reddit_token", d)

IssueRefresh ==
    \E d \in RefreshSets :
        Issue(create_refresh_token(d.client_id, d.client_secret, d.user_agent,
                                   d.refresh_token, now),
              "create_refresh_token", d)

IssueRaw ==
    \E d \in RawPayloads, ttl \in Ttls :
        Issue(create_access_token(d, ttl, now), "create_access_token",
              [data |-> d, ttl |-> ttl, at |-> now])

\* Somebody alters the payload of the token, or signs one with another key.
Tamper ==
    /\ token # NoToken
    /\ origin # "tampered"
    /\ \/ token' = [token EXCEPT !.payload = Update(@, [token_type |-> "reddit_refresh_access"])]
          /\ token'.payload # token.payload
       \/ token' = [token EXCEPT !.key = "another key"]
    /\ origin' = "tampered"
    /\ out' = NoOut
    /\ UNCHANGED <<now, given, advances, ACCESS_TOKEN_EXPIRE_MINUTES>>

\* Time passes: a minute, or the default lifetime of a token.
Advance ==
    /\ advances < MaxAdvances
    /\ \E d \in {1, ACCESS_TOKEN_EXPIRE_MINUTES} : now' = now + d
    /\ advances' = advances + 1
    /\ out' = NoOut
    /\ UNCHANGED <<token, origin, given, ACCESS_TOKEN_EXPIRE_MINUTES>>

Decode(op, res) ==
    /\ token # NoToken
    /\ out' = [op |-> op, status |-> res.status, detail |-> res.detail,
               value |-> res.value]
    /\ UNCHANGED <<now, token, origin, given, advances, ACCESS_TOKEN_EXPIRE_MINUTES>>

VerifyToken == Decode("verify_token", verify_token(token, now))

ExtractRefresh ==
    Decode("extract_refresh_token_credentials",
           extract_refresh_token_credentials(token, now))

ExtractLegacy ==
    Decode("extract_reddit_credentials", extract_reddit_credentials(token, now))

NextJwt ==
    \/ IssueLegacy /\ UNCHANGED <<auth_vars, flow_vars>>
    \/ IssueRefresh /\ UNCHANGED <<auth_vars, flow_vars>>
    \/ IssueRaw /\ UNCHANGED <<auth_vars, flow_vars>>
    \/ Tamper /\ UNCHANGED <<auth_vars, flow_vars>>
    \/ Advance /\ UNCHANGED <<auth_vars, flow_vars>>
    \/ VerifyToken /\ UNCHANGED <<auth_vars, flow_vars>>
    \/ ExtractRefresh /\ UNCHANGED <<auth_vars, flow_vars>>
    \/ ExtractLegacy /\ UNCHANGED <<auth_vars, flow_vars>>

SpecJwt == Init /\ [][NextJwt]_vars

(***************************************************************************)
(* The auth endpoints (auth_endpoints.py, auth_endpoints_backup.py)        *)
(*                                                                         *)
(* An invocation builds one transient asyncpraw.Reddit object, calls the   *)
(* upstream through it and answers.  The invocations share no state, so    *)
(* one invocation at a time is followed; each action is the stretch of a   *)
(* handler between two awaits of the upstream, with its awaits of          *)
(* reddit.close(), which does not raise.  The upstream decides what        *)
(* reddit.auth.authorize and reddit.user.me give.                          *)
(***************************************************************************)
HTTP_400_BAD_REQUEST == 400
HTTP_500_INTERNAL_SERVER_ERROR == 500
RedditTokenExpiresIn == 3600
SessionTokenExpiresIn == 43200

\* str(e) of what the upstream, the constructor and the response models raise
UpstreamMessage == "received 401 HTTP response"
ConstructorMessage == "Required configuration setting missing"
ValidationMessage == "1 validation error"
NoneTypeMessage == "'NoneType' object has no attribute 'name'"

\* what reddit.auth.authorize gives: it raises, or returns None (a temporary
\* grant has no refresh token) or the refresh token
AuthorizeOutcomes == {"raises", "none"} \cup RefreshTokens

\* what reddit.user.me gives: it raises, or returns None or the user
ProbeOutcomes == {"raises", "none"} \cup Usernames

\* bodies of the requests
\* the state a callback request carries: none, one that get_authorization_url
\* could have generated, one that was never issued
CallbackStates == {NoHeader, Header(<<"x", "x">>), Header(<<"f">>)}

OAuth2CallbackRequest(client_id, state) ==
    [client_id |-> client_id, client_secret |-> "secret", redirect_uri |-> "uri",
     user_agent |-> "ua", code |-> "code", state |-> state]

CallbackRequests ==
    {OAuth2CallbackRequest("cid1", state) : state \in CallbackStates}
    \cup {OAuth2CallbackRequest(c, NoHeader) : c \in ClientIds}

RedditTokenRequests ==
    {[access_token |-> "reddit access token", client_id |-> c,
      client_secret |-> "secret", user_agent |-> "ua"] : c \in ClientIds}

\* no invocation is under way
Free == fl.pc \in {"idle", "done"}

\* a new invocation of the endpoint fn
Invocation(fn, req) == [IdleFlow EXCEPT !.fn = fn, !.request = req]

At(fn, pc) == fl.fn = fn /\ fl.pc = pc

\* asyncpraw.Reddit(...) returned
Constructing(f) == [f EXCEPT !.reddit = @ + 1, !.construct = "ok"]

\* asyncpraw.Reddit(...) raised
Unconstructed(f) == [f EXCEPT !.construct = "raises"]

\* await reddit.close()
Closing(f) == [f EXCEPT !.closes = @ + 1]

\* `if reddit: await reddit.close()` of a finally clause
Finally(f) == IF f.reddit > 0 THEN Closing(f) ELSE f

\* await reddit.auth.authorize(code) gave x
Authorized(f, x) == [f EXCEPT !.exchanges = @ + 1, !.exchange = x]

\* await reddit.user.me() gave u
Identified(f, u) == [f EXCEPT !.probes = @ + 1, !.probe = u]

\* the invocation ends with an error response
Error(f, code, why) == [f EXCEPT !.pc = "done", !.status = code, !.detail = why]

\* the invocation ends with a RedditAPIException, which main.py answers with
\* the status of the exception, 400 by default
RedditAPIException(f, message) == Error(f, HTTP_400_BAD_REQUEST, message)

\* the invocation ends with a 200 response
Respond(f, body) == [f EXCEPT !.pc = "done", !.status = 200, !.body = body]

\* --- the authorization URL ------------------------------------------------
\* A string is a sequence of symbols: single characters, and words made of
\* letters, digits and '_' only.

\* nbytes of secrets.token_urlsafe(nbytes)
StateEntropyBytes == 32

\* len(secrets.token_urlsafe(nbytes)): base64 of nbytes without the padding
TokenUrlsafeLen(nbytes) == (4 * nbytes + 2) \div 3

\* values secrets.token_urlsafe(32) may return
GeneratedStates == {Repeat(c, TokenUrlsafeLen(StateEntropyBytes)) : c \in {"x", "_"}}

AuthorizeEndpoint == "https://www.reddit.com/api/v1/authorize"

\* quote_plus of one symbol: a space becomes '+', a reserved character its
\* percent escape, anything else stays
QuoteSymbol(c) ==
    IF c = " " THEN <<"+">>
    ELSE IF c = "+" THEN <<"%", "2", "B">>
    ELSE IF c = "&" THEN <<"%", "2", "6">>
    ELSE IF c = "=" THEN <<"%", "3", "D">>
    ELSE IF c = "%" THEN <<"%", "2", "5">>
    ELSE IF c = "*" THEN <<"%", "2", "A">>
    ELSE <<c>>

\* a quoting that escapes nothing
quote_nothing(s) == s

\* quote_plus(s)
RECURSIVE quote_plus(_)
quote_plus(s) ==
    IF s = <<>> THEN <<>> ELSE QuoteSymbol(Head(s)) \o quote_plus(Tail(s))

\* " ".join(scopes)
RECURSIVE JoinSpace(_)
JoinSpace(scopes) ==
    IF scopes = <<>> THEN <<>>
    ELSE IF Len(scopes) = 1 THEN <<Head(scopes)>>
    ELSE <<Head(scopes), " ">> \o JoinSpace(Tail(scopes))

\* urlencode(params): key=value pairs joined by '&', every value quoted
RECURSIVE urlencode(_)
urlencode(params) ==
    IF params = <<>> THEN <<>>
    ELSE LET pair == <<Head(params)[1], "=">> \o quote_plus(Head(params)[2])
         IN  IF Len(params) = 1 THEN pair
             ELSE pair \o <<"&">> \o urlencode(Tail(params))

\* the parameters of the authorization URL, in the order of the dict
AuthorizeParams(req, state) ==
    << <<"client_id", <<req.client_id>> >>,
       <<"response_type", <<"code">> >>,
       <<"state", state>>,
       <<"redirect_uri", <<req.redirect_uri>> >>,
       <<"duration", <<req.duration>> >>,
       <<"scope", JoinSpace(req.scopes)>> >>

\* f"{base_url}?{urlencode(params)}"
AuthorizationUrl(req, state) ==
    [base |-> AuthorizeEndpoint, query |-> urlencode(AuthorizeParams(req, state))]

\* request.state or secrets.token_urlsafe(32)
StateOrGenerated(state, generated) == IF Truthy(state) THEN state[1] ELSE generated

\* bodies of AuthorizationURLRequest: no state, an empty one, and two with
\* characters that the URL has to escape
AuthorizationURLRequest(scopes, state, duration) ==
    [client_id |-> "cid1", client_secret |-> "secret", redirect_uri |-> "uri",
     user_agent |-> "ua", scopes |-> scopes, state |-> state, duration |-> duration]

AuthorizationURLRequests ==
    {AuthorizationURLRequest(<<"*">>, st, "permanent") :
        st \in {NoHeader, Header(<<>>), Header(<<"a", " ", "b", "+">>),
                Header(<<"s", "&", "t", "=", "%">>)}}
    \cup {AuthorizationURLRequest(<<"read", "identity">>, NoHeader, "temporary"),
          AuthorizationURLRequest(<<"read", "identity">>,
                                  Header(<<"a", " ", "b", "+">>), "forever")}

\* --- auth_endpoints.py ---------------------------------------------------

\* TokenResponse of auth_endpoints.py
RedditTokenResponse(refresh_token, username) ==
    [access_token |-> "reddit access token", refresh_token |-> refresh_token,
     token_type |-> "bearer", expires_in |-> RedditTokenExpiresIn,
     scope |-> "*", reddit_username |-> username]

\* TokenValidationResponse of auth_endpoints.py
TokenValidationResponse(valid, username, error) ==
    [valid |-> valid, username |-> username, error |-> error]

\* a callback that refuses a request without a state
callback_begun_stateful(req, constructed) ==
    LET f == Invocation("oauth2_callback", req)
    IN  IF req.state = NoHeader
        THEN RedditAPIException(f, "Failed to exchange code for tokens: no state")
        ELSE IF constructed
        THEN [Constructing(f) EXCEPT !.pc = "exchange"]
        ELSE Finally(RedditAPIException(Unconstructed(f),
                 "Failed to exchange code for tokens: " \o ConstructorMessage))

\* what oauth2_callback has done to its invocation when it awaits
\* reddit.auth.authorize
callback_begun(req, constructed) ==
    LET f == Invocation("oauth2_callback", req)
    IN  IF constructed
        THEN [Constructing(f) EXCEPT !.pc = "exchange"]
        ELSE Finally(RedditAPIException(Unconstructed(f),
                 "Failed to exchange code for tokens: " \o ConstructorMessage))

\* oauth2_callback, up to the await of reddit.auth.authorize
oauth2_callback_begin ==
    /\ Free
    /\ \E req \in CallbackRequests, constructed \in BOOLEAN :
        fl' = callback_begun(req, constructed)
    /\ UNCHANGED jwt_vars

\* oauth2_callback, from the return of reddit.auth.authorize to the await of
\* reddit.user.me; what authorize returns is not looked at
callback_authorized(g, x) ==
    LET f == Authorized(g, x)
    IN  IF x = "raises"
        THEN Finally(RedditAPIException(f,
                 "Failed to exchange code for tokens: " \o UpstreamMessage))
        ELSE [f EXCEPT !.pc = "probe"]

oauth2_callback_authorized ==
    /\ At("oauth2_callback", "exchange")
    /\ \E x \in AuthorizeOutcomes : fl' = callback_authorized(fl, x)
    /\ UNCHANGED jwt_vars

\* oauth2_callback, from the return of reddit.user.me to the end; the
\* response is made of private attributes of the library and validated by
\* the response model, inside the try: built tells whether that went through
callback_probed(g, u, built) ==
    LET f == Identified(g, u)
        username == IF u = "none" THEN "unknown" ELSE u
        refresh_token == IF f.exchange = "none" THEN "None" ELSE f.exchange
    IN  IF u = "raises"
        THEN Finally(RedditAPIException(f,
                 "Failed to exchange code for tokens: " \o UpstreamMessage))
        ELSE IF ~built
        THEN Finally(RedditAPIException(f,
                 "Failed to exchange code for tokens: " \o ValidationMessage))
        ELSE Finally(Respond(f, RedditTokenResponse(refresh_token, username)))

oauth2_callback_probed ==
    /\ At("oauth2_callback", "probe")
    /\ \E u \in ProbeOutcomes, built \in BOOLEAN : fl' = callback_probed(fl, u, built)
    /\ UNCHANGED jwt_vars

\* AuthorizationURLResponse of auth_endpoints.py
AuthorizationURLResponse(authorization_url, state) ==
    [authorization_url |-> authorization_url, state |-> state]

\* get_authorization_url: it awaits nothing, and nothing in its try raises
get_authorization_url ==
    /\ Free
    /\ \E req \in AuthorizationURLRequests, generated \in GeneratedStates :
        LET f == Invocation("get_authorization_url", req)
            state == StateOrGenerated(req.state, generated)
        IN  fl' = Respond(f, AuthorizationURLResponse(
                                 AuthorizationUrl(req, state), state))
    /\ UNCHANGED jwt_vars

\* refresh_access_token, up to the await of reddit.user.me
refresh_access_token_begin ==
    /\ Free
    /\ \E req \in RefreshSets, constructed \in BOOLEAN :
        LET f == Invocation("refresh_access_token", req)
        IN  fl' = IF constructed
                  THEN [Constructing(f) EXCEPT !.pc = "probe"]
                  ELSE Finally(RedditAPIException(Unconstructed(f),
                           "Failed to refresh token: " \o ConstructorMessage))
    /\ UNCHANGED jwt_vars

\* refresh_access_token, from the return of reddit.user.me to the end
refresh_access_token_probed ==
    /\ At("refresh_access_token", "probe")
    /\ \E u \in ProbeOutcomes, built \in BOOLEAN :
        LET f == Identified(fl, u)
        IN  fl' = IF u = "raises"
                  THEN Finally(RedditAPIException(f,
                           "Failed to refresh token: " \o UpstreamMessage))
                  ELSE IF u = "none"
                  THEN Finally(RedditAPIException(f,
                           "Failed to refresh token: "
                           \o "Failed to authenticate with refresh token"))
                  ELSE IF ~built
                  THEN Finally(RedditAPIException(f,
                           "Failed to refresh token: " \o ValidationMessage))
                  ELSE Finally(Respond(f,
                           RedditTokenResponse(f.request.refresh_token, u)))
    /\ UNCHANGED jwt_vars

\* validate_token, up to the await of reddit.user.me
validate_token_begin ==
    /\ Free
    /\ \E req \in RedditTokenRequests, constructed \in BOOLEAN :
        LET f == Invocation("validate_token", req)
        IN  fl' = IF constructed
                  THEN [Constructing(f) EXCEPT !.pc = "probe"]
                  ELSE Finally(Respond(Unconstructed(f),
                           TokenValidationResponse(FALSE, "None", ConstructorMessage)))
    /\ UNCHANGED jwt_vars

\* validate_token, from the return of reddit.user.me to the end
validate_token_probed ==
    /\ At("validate_token", "probe")
    /\ \E u \in ProbeOutcomes, built \in BOOLEAN :
        LET f == Identified(fl, u)
        IN  fl' = IF u = "raises"
                  THEN Finally(Respond(f,
                           TokenValidationResponse(FALSE, "None", UpstreamMessage)))
                  ELSE IF u = "none"
                  THEN Finally(Respond(f,
                           TokenValidationResponse(FALSE, "None", NoneTypeMessage)))
                  ELSE IF ~built
                  THEN Finally(Respond(f,
                           TokenValidationResponse(FALSE, "None", ValidationMessage)))
                  ELSE Finally(Respond(f, TokenValidationResponse(TRUE, u, "None")))
    /\ UNCHANGED jwt_vars

\* --- auth_endpoints_backup.py, the endpoints that issue session tokens ----

\* a TokenResponse that announces the lifetime of an upstream token
TokenResponseHour(access_token, username) ==
    [access_token |-> access_token, token_type |-> "bearer",
     expires_in |-> RedditTokenExpiresIn, reddit_username |-> username]

\* TokenResponse of auth_endpoints_backup.py
TokenResponse(access_token, username) ==
    [access_token |-> access_token, token_type |-> "bearer",
     expires_in |-> SessionTokenExpiresIn, reddit_username |-> username]

\* the credentials of a request that go into its refresh token
RefreshCredentials(req, refresh_token) ==
    [client_id |-> req.client_id, client_secret |-> req.client_secret,
     user_agent |-> req.user_agent, refresh_token |-> refresh_token]

\* the parameters reddit.auth.url hands to the upstream's authorize endpoint
LibraryAuthorizeParams(req, state) ==
    << <<"client_id", <<req.client_id>> >>,
       <<"duration", <<req.duration>> >>,
       <<"redirect_uri", <<req.redirect_uri>> >>,
       <<"response_type", <<"code">> >>,
       <<"scope", JoinSpace(req.scopes)>>,
       <<"state", state>> >>

\* reddit.auth.url(scopes=..., state=..., duration=...)
reddit_auth_url(req, state) ==
    [base |-> AuthorizeEndpoint, query |-> urlencode(LibraryAuthorizeParams(req, state))]

\* AuthorizationURLResponse of auth_endpoints_backup.py
BackupAuthorizationURLResponse(authorization_url, state) ==
    [authorization_url |-> authorization_url, state |-> state,
     expires_in |-> RedditTokenExpiresIn]

\* get_authorization_url of auth_endpoints_backup.py: the client is closed
\* only when reddit.auth.url has returned
backup_get_authorization_url ==
    /\ Free
    /\ \E req \in AuthorizationURLRequests, generated \in GeneratedStates,
          constructed \in BOOLEAN, made \in BOOLEAN :
        LET f == Invocation("backup_get_authorization_url", req)
            state == StateOrGenerated(req.state, generated)
        IN  fl' = IF ~constructed
                  THEN Error(Unconstructed(f), HTTP_500_INTERNAL_SERVER_ERROR,
                             "Failed to generate authorization URL: "
                             \o ConstructorMessage)
                  ELSE IF ~made
                  THEN Error(Constructing(f), HTTP_500_INTERNAL_SERVER_ERROR,
                             "Failed to generate authorization URL: "
                             \o UpstreamMessage)
                  ELSE Respond(Closing(Constructing(f)),
                               BackupAuthorizationURLResponse(
                                   reddit_auth_url(req, state), state))
    /\ UNCHANGED jwt_vars

\* oauth2_callback, up to the await of reddit.auth.authorize
backup_callback_begun(req, constructed) ==
    LET f == Invocation("backup_oauth2_callback", req)
    IN  IF constructed
        THEN [Constructing(f) EXCEPT !.pc = "exchange"]
        ELSE Error(Unconstructed(f), HTTP_500_INTERNAL_SERVER_ERROR,
                   "OAuth2 callback failed: " \o ConstructorMessage)

backup_oauth2_callback_begin ==
    /\ Free
    /\ \E req \in CallbackRequests, constructed \in BOOLEAN :
        fl' = backup_callback_begun(req, constructed)
    /\ UNCHANGED jwt_vars

\* oauth2_callback, from the return of reddit.auth.authorize to the await of
\* reddit.user.me
backup_callback_authorized(g, x) ==
    LET f == Authorized(g, x)
    IN  IF x = "raises"
        THEN Error(f, HTTP_500_INTERNAL_SERVER_ERROR,
                   "OAuth2 callback failed: " \o UpstreamMessage)
        ELSE IF x = "none"
        THEN Error(Closing(f), HTTP_400_BAD_REQUEST,
                   "Failed to obtain refresh token from authorization code")
        ELSE [f EXCEPT !.pc = "probe"]

backup_oauth2_callback_authorized ==
    /\ At("backup_oauth2_callback", "exchange")
    /\ \E x \in AuthorizeOutcomes : fl' = backup_callback_authorized(fl, x)
    /\ UNCHANGED jwt_vars

\* oauth2_callback, from the return of reddit.user.me to the end; once the
\* user has a name nothing raises: the token and the response are made of
\* strings
backup_callback_probed(g, u, t) ==
    LET f == Closing(Identified(g, u))
        d == RefreshCredentials(f.request, f.exchange)
        access_token == create_refresh_token(d.client_id, d.client_secret,
                                             d.user_agent, d.refresh_token, t)
    IN  IF u \in {"raises", "none"}
        THEN Error(f, HTTP_400_BAD_REQUEST,
                   "Failed to verify authorization: "
                   \o (IF u = "none" THEN NoneTypeMessage ELSE UpstreamMessage))
        ELSE Respond(f, TokenResponse(access_token, u))

backup_oauth2_callback_probed ==
    /\ At("backup_oauth2_callback", "probe")
    /\ \E u \in ProbeOutcomes :
        /\ fl' = backup_callback_probed(fl, u, now)
        /\ IF u \in {"raises", "none"}
           THEN UNCHANGED jwt_vars
           ELSE Issue(fl'.body.access_token, "create_refresh_token",
                      RefreshCredentials(fl.request, fl.exchange))

\* login_with_refresh_token, up to the await of reddit.user.me
login_with_refresh_token_begin ==
    /\ Free
    /\ \E req \in RefreshSets, constructed \in BOOLEAN :
        LET f == Invocation("login_with_refresh_token", req)
        IN  fl' = IF constructed
                  THEN [Constructing(f) EXCEPT !.pc = "probe"]
                  ELSE Error(Unconstructed(f), HTTP_500_INTERNAL_SERVER_ERROR,
                             "Refresh token authentication failed: "
                             \o ConstructorMessage)
    /\ UNCHANGED jwt_vars

\* login_with_refresh_token, from the return of reddit.user.me to the end
login_with_refresh_token_probed ==
    /\ At("login_with_refresh_token", "probe")
    /\ \E u \in ProbeOutcomes :
        LET f == Closing(Identified(fl, u))
            d == RefreshCredentials(f.request, f.request.refresh_token)
            access_token == create_refresh_token(d.client_id, d.client_secret,
                                                 d.user_agent, d.refresh_token, now)
        IN  IF u \in {"raises", "none"}
            THEN /\ fl' = Error(f, HTTP_401_UNAUTHORIZED,
                                "Invalid refresh token: "
                                \o (IF u = "none" THEN NoneTypeMessage
                                    ELSE UpstreamMessage))
                 /\ UNCHANGED jwt_vars
            ELSE /\ fl' = Respond(f, TokenResponse(access_token, u))
                 /\ Issue(access_token, "create_refresh_token", d)

\* login, up to the await of reddit.user.me
login_begin ==
    /\ Free
    /\ \E req \in LegacySets, constructed \in BOOLEAN :
        LET f == Invocation("login", req)
        IN  fl' = IF constructed
                  THEN [Constructing(f) EXCEPT !.pc = "probe"]
                  ELSE Error(Unconstructed(f), HTTP_500_INTERNAL_SERVER_ERROR,
                             "Authentication failed: " \o ConstructorMessage)
    /\ UNCHANGED jwt_vars

\* login, from the return of reddit.user.me to the end; the HTTPException
\* raised for a user of None is caught by the except clause next to it
login_probed ==
    /\ At("login", "probe")
    /\ \E u \in ProbeOutcomes :
        LET f == Closing(Identified(fl, u))
            d == f.request
            access_token == create_reddit_token(d.client_id, d.client_secret,
                                d.username, d.password, d.user_agent, now)
        IN  IF u \in {"raises", "none"}
            THEN /\ fl' = Error(f, HTTP_401_UNAUTHORIZED,
                                "Reddit authentication failed: "
                                \o (IF u = "none"
                                    THEN "401: Invalid Reddit credentials"
                                    ELSE UpstreamMessage))
                 /\ UNCHANGED jwt_vars
            ELSE /\ fl' = Respond(f, TokenResponse(access_token, u))
                 /\ Issue(access_token, "create_reddit_token", d)

\* validate_token, up to the await of reddit.user.me: the bearer is the
\* token at hand, decoded as of now
backup_validate_token_begin ==
    /\ Free
    /\ token # NoToken
    /\ \E constructed \in BOOLEAN :
        LET f == Invocation("backup_validate_token",
                            [credentials |-> token, origin |-> origin, at |-> now])
            reddit_creds == extract_reddit_credentials(token, now)
        IN  fl' = IF reddit_creds.status # 200
                  THEN Error(f, reddit_creds.status, reddit_creds.detail)
                  ELSE IF ~constructed
                  THEN Error(Unconstructed(f), HTTP_401_UNAUTHORIZED, "Invalid token")
                  ELSE [Constructing(f) EXCEPT !.pc = "probe"]
    /\ UNCHANGED jwt_vars

\* validate_token, from the return of reddit.user.me to the end; with a
\* user of None the handle is closed, user.name raises and the except clause
\* closes the handle again
backup_validate_token_probed ==
    /\ At("backup_validate_token", "probe")
    /\ \E u \in ProbeOutcomes :
        LET f == Closing(Identified(fl, u))
        IN  fl' = IF u = "raises"
                  THEN Error(f, HTTP_401_UNAUTHORIZED,
                             "Token validation failed: " \o UpstreamMessage)
                  ELSE IF u = "none"
                  THEN Error(Closing(f), HTTP_401_UNAUTHORIZED,
                             "Token validation failed: " \o NoneTypeMessage)
                  ELSE Respond(f, [valid |-> TRUE, username |-> u])
    /\ UNCHANGED jwt_vars

\* --- refresh_endpoints.py and user_endpoints.py --------------------------
\* The handlers are given the handle their authenticator returned.

HTTP_404_NOT_FOUND == 404

CommentIds == {"c1", "c2", "c3", "c4"}

\* what comment.parent() gives: it raises, or returns a submission, or
\* returns a comment of a user, or one whose author is None
ParentOutcomes == {"raises", "submission", "none"} \cup Usernames

\* the attributes of the user that get_current_user tests with hasattr
OptionalAttributes ==
    {"total_karma", "is_gold", "is_mod", "has_verified_email", "inbox_count"}

\* str(e) of an HTTPException
HTTPExceptionMessage(code, detail) == ToString(code) \o ": " \o detail

\* raise HTTPException(code, detail) inside `try: ... except Exception as e:
\* raise RedditAPIException(f"{prefix}{str(e)}")`: an HTTPException is an
\* Exception, the handler catches it, and main.py answers the
\* RedditAPIException with its own status
HTTPExceptionInTry(f, code, detail, prefix) ==
    RedditAPIException(f, prefix \o HTTPExceptionMessage(code, detail))

CommentInfo(comment_id, author) ==
    [id |-> <<"parent of", comment_id>>, author |-> author]

\* get_comment_parent, up to the await of reddit.comment
get_comment_parent_begin ==
    /\ Free
    /\ \E comment_id \in CommentIds :
        fl' = [Invocation("get_comment_parent", [comment_id |-> comment_id])
                   EXCEPT !.pc = "comment"]
    /\ UNCHANGED jwt_vars

\* get_comment_parent, from the return of reddit.comment to the await of
\* comment.parent
get_comment_parent_fetched ==
    /\ At("get_comment_parent", "comment")
    /\ \E fetched \in BOOLEAN :
        fl' = IF fetched
              THEN [fl EXCEPT !.pc = "parent"]
              ELSE RedditAPIException(fl,
                       "Failed to get comment parent: " \o UpstreamMessage)
    /\ UNCHANGED jwt_vars

\* get_comment_parent, from the return of comment.parent to the end; built
\* tells whether the attributes CommentInfo is made of were all there
get_comment_parent_resolved ==
    /\ At("get_comment_parent", "parent")
    /\ \E p \in ParentOutcomes, built \in BOOLEAN :
        LET f == [fl EXCEPT !.parent = p]
        IN  fl' = IF p = "raises"
                  THEN RedditAPIException(f,
                           "Failed to get comment parent: " \o UpstreamMessage)
                  ELSE IF p = "submission"
                  THEN HTTPExceptionInTry(f, HTTP_404_NOT_FOUND,
                           "Parent is a submission, not a comment",
                           "Failed to get comment parent: ")
                  ELSE IF ~built
                  THEN RedditAPIException(f,
                           "Failed to get comment parent: " \o ValidationMessage)
                  ELSE Respond(f, CommentInfo(f.request.comment_id,
                                   IF p = "none" THEN "[deleted]" ELSE p))
    /\ UNCHANGED jwt_vars

\* the dictionary get_current_user returns for a user that has the
\* attributes has
UserInfo(name, has) ==
    [name |-> name,
     total_karma |-> IF "total_karma" \in has THEN "total_karma" ELSE "None",
     is_gold |-> IF "is_gold" \in has THEN "is_gold" ELSE "False",
     is_mod |-> IF "is_mod" \in has THEN "is_mod" ELSE "False",
     has_verified_email |->
         IF "has_verified_email" \in has THEN "has_verified_email" ELSE "None",
     inbox_count |-> IF "inbox_count" \in has THEN "inbox_count" ELSE "None"]

\* get_current_user, up to the await of reddit.user.me
get_current_user_begin ==
    /\ Free
    /\ fl' = [Invocation("get_current_user", [x \in {} |-> 0]) EXCEPT !.pc = "probe"]
    /\ UNCHANGED jwt_vars

\* get_current_user, from the return of reddit.user.me to the end
get_current_user_probed ==
    /\ At("get_current_user", "probe")
    /\ \E u \in ProbeOutcomes, has \in SUBSET OptionalAttributes :
        LET f == Identified(fl, u)
        IN  fl' = IF u = "raises"
                  THEN RedditAPIException(f,
                           "Failed to get user info: " \o UpstreamMessage)
                  ELSE IF u = "none"
                  THEN HTTPExceptionInTry(f, HTTP_401_UNAUTHORIZED,
                           "Authentication failed", "Failed to get user info: ")
                  ELSE Respond(f, UserInfo(u, has))
    /\ UNCHANGED jwt_vars

\* a frame in which a handler stores in the client cache
FlowFrameCaching ==
    /\ cache' = [k \in DOMAIN cache |-> 0]
    /\ UNCHANGED <<handles, rq, cleared>>

\* What a handler of the routers does to the state of auth.py: the routers
\* neither import auth.py nor name its cache.
FlowFrame == UNCHANGED auth_vars

\* the handlers that construct a client to call the upstream with
NextHandlers ==
    \/ oauth2_callback_begin /\ FlowFrame
    \/ oauth2_callback_authorized /\ FlowFrame
    \/ oauth2_callback_probed /\ FlowFrame
    \/ refresh_access_token_begin /\ FlowFrame
    \/ refresh_access_token_probed /\ FlowFrame
    \/ validate_token_begin /\ FlowFrame
    \/ validate_token_probed /\ FlowFrame
    \/ backup_oauth2_callback_begin /\ FlowFrame
    \/ backup_oauth2_callback_authorized /\ FlowFrame
    \/ backup_oauth2_callback_probed /\ FlowFrame
    \/ login_with_refresh_token_begin /\ FlowFrame
    \/ login_with_refresh_token_probed /\ FlowFrame
    \/ login_begin /\ FlowFrame
    \/ login_probed /\ FlowFrame
    \/ backup_validate_token_begin /\ FlowFrame
    \/ backup_validate_token_probed /\ FlowFrame

\* the handlers, with tokens that age and tokens that were not issued here
NextFlows ==
    \/ NextHandlers
    \/ Tamper /\ UNCHANGED <<auth_vars, flow_vars>>
    \/ Advance /\ UNCHANGED <<auth_vars, flow_vars>>

SpecFlows == Init /\ [][NextFlows]_vars

\* all the endpoints of the two routers, at one instant
NextEndpoints ==
    \/ get_authorization_url /\ FlowFrame
    \/ backup_get_authorization_url /\ FlowFrame
    \/ NextHandlers

SpecEndpoints == Init /\ [][NextEndpoints]_vars

\* values the environment may give ACCESS_TOKEN_EXPIRE_MINUTES
ConfiguredMinutes == {60, DefaultExpireMinutes, 1440}

\* the process after jwt_utils.py read its configuration from the
\* environment, at one of two instants
InitConfigured ==
    /\ cache = [k \in {} |-> 0]
    /\ handles = <<>>
    /\ rq = [r \in Requests |-> IdleRequest]
    /\ cleared = FALSE
    /\ now \in {0, 7}
    /\ token = NoToken
    /\ origin = "-"
    /\ given = [x \in {} |-> 0]
    /\ out = NoOut
    /\ advances = 0
    /\ ACCESS_TOKEN_EXPIRE_MINUTES \in ConfiguredMinutes
    /\ fl = IdleFlow

SpecConfigured == InitConfigured /\ [][NextEndpoints]_vars

\* the two content endpoints that raise an HTTPException of their own
NextContent ==
    \/ get_comment_parent_begin /\ FlowFrame
    \/ get_comment_parent_fetched /\ FlowFrame
    \/ get_comment_parent_resolved /\ FlowFrame
    \/ get_current_user_begin /\ FlowFrame
    \/ get_current_user_probed /\ FlowFrame

SpecContent == Init /\ [][NextContent]_vars

\* the authenticators first and then, once every request is answered and the
\* cache stores a handle, one invocation of an endpoint of the routers
NextCache ==
    \/ Next /\ fl = IdleFlow
    \/ /\ \A r \in Requests : rq[r].pc = "done"
       /\ DOMAIN cache # {}
       /\ fl.pc # "done"
       /\ NextEndpoints

SpecCache == Init /\ [][NextCache]_vars

(***************************************************************************)
(* Properties of the authenticators and of the cache                       *)
(***************************************************************************)
Done(r) == rq[r].pc = "done"
Started(r) == rq[r].pc # "idle"
Handles == 1..Len(handles)

\* The lookup of request r found no entry.
Missed(r) == rq[r].pc \in {"probe_new", "done"} /\ rq[r].cached_probe = "-"

\* Request r built the handle it holds.
BuiltOwn(r) == rq[r].reddit \in Handles /\ handles[rq[r].reddit].owner = r

\* Number of probes request r has got the outcome of.
Probes(r) ==
    (IF rq[r].cached_probe = "-" THEN 0 ELSE 1) + (IF rq[r].new_probe = "-" THEN 0 ELSE 1)

\* Requests start in the order of their numbers: no request started after r.
Latest(r) == IF r = NReq THEN TRUE ELSE ~Started(r + 1)

SameCall(r1, r2) ==
    /\ rq[r1].fn = rq[r2].fn
    /\ rq[r1].access_token = rq[r2].access_token
    /\ rq[r1].x_reddit_client_id = rq[r2].x_reddit_client_id
    /\ rq[r1].x_reddit_client_secret = rq[r2].x_reddit_client_secret

\* The step is a call of clear_reddit_client_cache: no request moves.
ClearStep == \A r \in Requests : rq'[r].pc = rq[r].pc

\* C1: when a request stores its successfully probed new handle, the cache
\* holds that handle afterwards, and every handle stored earlier under the
\* same key is then out of the cache and has not been closed; a handle that
\* was stored in the cache is never closed.
C1_SecondWriteWins ==
    /\ [](\A h \in Handles : handles[h].probed_ok => handles[h].closes = 0)
    /\ [][\A r \in Requests :
            (rq[r].pc = "probe_new" /\ rq'[r].status = 200) =>
               /\ rq[r].cache_key \in DOMAIN cache'
               /\ cache'[rq[r].cache_key] = rq[r].reddit
               /\ \A h \in Handles :
                     (h # rq[r].reddit /\ handles[h].probed_ok
                        /\ handles[h].cache_key = rq[r].cache_key)
                     => (h \notin Range(cache') /\ handles'[h].closes = 0)]_vars

\* C1 witness: two get_reddit_client requests with the same bearer both found
\* no entry, both built and probed a handle of their own and both stored it;
\* the cache holds one of the two and the other is out of it and not closed.
C1_RaceReached ==
    \E r1, r2 \in Requests :
        /\ r1 # r2 /\ Done(r1) /\ Done(r2) /\ ~cleared
        /\ rq[r1].fn = "get_reddit_client" /\ rq[r2].fn = "get_reddit_client"
        /\ rq[r1].access_token = rq[r2].access_token
        /\ Missed(r1) /\ Missed(r2)
        /\ rq[r1].status = 200 /\ rq[r2].status = 200
        /\ BuiltOwn(r1) /\ BuiltOwn(r2)
        /\ rq[r1].result # rq[r2].result
        /\ cache[rq[r1].cache_key] = rq[r2].result
        /\ rq[r1].result \notin Range(cache)
        /\ handles[rq[r1].result].closes = 0

\* C2: once every request for a key has returned a handle (none is still
\* running, none failed, the cache was never cleared), the cache has an entry
\* for the key and its value is a handle returned to one of those requests.
C2_Converges ==
    \A k \in {rq[r].cache_key : r \in {x \in Requests : Started(x)}} :
        LET G == {r \in Requests : Started(r) /\ rq[r].cache_key = k}
        IN  (~cleared /\ \A r \in G : Done(r) /\ rq[r].status = 200)
            => (k \in DOMAIN cache /\ \E r \in G : cache[k] = rq[r].result)

\* C2 witness: two overlapping requests with the same input got two
\* different handles, and the cache holds one of them.
C2_Reached ==
    \E r1, r2 \in Requests :
        /\ r1 # r2 /\ Done(r1) /\ Done(r2) /\ ~cleared /\ SameCall(r1, r2)
        /\ rq[r1].disturbed /\ rq[r2].disturbed
        /\ rq[r1].status = 200 /\ rq[r2].status = 200
        /\ rq[r1].result # rq[r2].result
        /\ cache[rq[r1].cache_key] \in {rq[r1].result, rq[r2].result}

\* C3: two calls of the same authenticator with the same bearer and headers,
\* the second started after the first returned a handle, nothing else running
\* meanwhile and no probe of the second failing: the second returns the handle
\* the first returned, calls no constructor and makes exactly one probe.
C3_SequentialReuse ==
    \A r1, r2 \in Requests :
        (/\ r2 = r1 + 1 /\ Done(r1) /\ Done(r2) /\ ~cleared
         /\ ~rq[r1].disturbed /\ ~rq[r2].disturbed
         /\ SameCall(r1, r2)
         /\ rq[r1].status = 200
         /\ rq[r2].cached_probe \notin {"none", "raise"}
         /\ rq[r2].new_probe \notin {"none", "raise"})
        => (/\ rq[r2].status = 200
            /\ rq[r2].result = rq[r1].result
            /\ ~rq[r2].attempted
            /\ Probes(r2) = 1)

\* C3 witness: the second of two such calls has returned the first one's handle.
C3_Reached ==
    \E r1, r2 \in Requests :
        /\ r2 = r1 + 1 /\ Done(r1) /\ Done(r2) /\ ~cleared
        /\ ~rq[r1].disturbed /\ ~rq[r2].disturbed /\ SameCall(r1, r2)
        /\ rq[r1].status = 200 /\ rq[r2].status = 200
        /\ rq[r2].cached_probe = "ok"
        /\ rq[r2].result = rq[r1].result

\* a request whose probe of the cached handle failed never returns that
\* handle, leaves the handle out of the cache, and goes on to call the
\* constructor
EvictThenConstruct ==
    \A r \in Requests :
        rq[r].stale # 0 =>
            /\ rq[r].result # rq[r].stale
            /\ rq[r].stale \notin Range(cache)
            /\ rq[r].attempted

\* C4: a cached handle whose probe failed (raised, or gave no identity) is
\* not returned by the request, is out of the cache, the request goes on to
\* call the constructor and probes what it built, and no request that starts
\* later reads the failed handle from the cache.
C4_StaleNeverReused ==
    /\ []EvictThenConstruct
    /\ [][\A r \in Requests :
            /\ (rq[r].pc = "idle" /\ rq'[r].pc = "probe_cached")
               => \A s \in Requests : rq[s].stale # rq'[r].reddit
            /\ (rq[r].pc = "probe_cached" /\ rq'[r].stale # 0)
               => \/ rq'[r].pc = "probe_new" /\ rq'[r].reddit # rq'[r].stale
                  \/ rq'[r].pc = "done" /\ rq'[r].status = 401 /\ rq'[r].attempted]_vars

\* C4 witness: the probe of a cached handle gave no identity while another
\* request or a clear was at work, and the request built a fresh handle,
\* probed it and returned it.
C4_Reached ==
    \E r \in Requests :
        /\ Done(r) /\ rq[r].cached_probe = "none" /\ rq[r].disturbed
        /\ rq[r].stale # 0 /\ rq[r].status = 200
        /\ rq[r].result # rq[r].stale /\ rq[r].new_probe = "ok"

\* C5: a request ends with 200 and a handle or with 401 and none, and when a
\* request that ran alone ends with 401 the cache has no entry for its key
\* (as long as no later request has started).
C5_Always401 ==
    \A r \in Requests :
        Done(r) =>
            /\ rq[r].status \in {200, 401}
            /\ (rq[r].status = 200) = (rq[r].result # 0)
            /\ (rq[r].status = 401 /\ ~rq[r].disturbed /\ Latest(r))
               => rq[r].cache_key \notin DOMAIN cache

\* C5 witness: a request that ran alone found an entry, evicted it after the
\* failed probe and ended with 401 after the probe of its new handle failed.
C5_Reached ==
    \E r \in Requests :
        /\ Done(r) /\ rq[r].status = 401 /\ ~rq[r].disturbed /\ Latest(r)
        /\ rq[r].stale # 0 /\ rq[r].new_probe \in {"none", "raise"}
        /\ rq[r].cache_key \notin DOMAIN cache

\* C6: after the probe of a new handle failed, the request has ended with 401
\* and no handle, the new handle has been closed and is not in the cache; a
\* request returns the handle it built only after its probe succeeded.
C6_FailedNewHandleClosed ==
    \A r \in Requests :
        /\ rq[r].new_probe \in {"none", "raise"} =>
              /\ Done(r) /\ rq[r].status = 401 /\ rq[r].result = 0
              /\ handles[rq[r].reddit].closes >= 1
              /\ rq[r].reddit \notin Range(cache)
        /\ (BuiltOwn(r) /\ rq[r].result = rq[r].reddit) => rq[r].new_probe = "ok"

\* C6 witness: a new handle whose probe returned None has been closed, and
\* another one whose probe succeeded is in the cache.
C6_Reached ==
    \E r1, r2 \in Requests :
        /\ rq[r1].new_probe = "none" /\ handles[rq[r1].reddit].closes >= 1
        /\ rq[r2].new_probe = "ok" /\ rq[r2].result \in Range(cache)

\* C7: every handle in the cache is stored under the key of the request that
\* built it, and that request got an identity from its probe of the handle.
C7_CachedWasProbed ==
    \A k \in DOMAIN cache :
        /\ cache[k] \in Handles
        /\ handles[cache[k]].probed_ok
        /\ handles[cache[k]].cache_key = k
        /\ rq[handles[cache[k]].owner].new_probe = "ok"
        /\ rq[handles[cache[k]].owner].reddit = cache[k]

\* C7 witness: the cache holds a handle while another request with the same
\* key holds a new handle whose probe has not returned yet.
C7_Reached ==
    \E r1, r2 \in Requests :
        /\ rq[r1].cache_key \in DOMAIN cache
        /\ cache[rq[r1].cache_key] = rq[r1].result
        /\ rq[r2].cache_key = rq[r1].cache_key
        /\ rq[r2].pc = "probe_new"

\* C8: a key leaves the cache only in a call of clear_reddit_client_cache or
\* in the step of a request for that key in which the probe of the handle it
\* read from the cache under that key fails; after a clear the count is 0.
C8_RemovalOnlyOnFailureOrClear ==
    [][/\ ClearStep => Cardinality(DOMAIN cache') = 0
       /\ \A k \in DOMAIN cache \ DOMAIN cache' :
             \/ ClearStep
             \/ \E r \in Requests :
                   /\ rq[r].pc = "probe_cached"
                   /\ rq[r].cache_key = k
                   /\ rq'[r].cached_probe \in {"none", "raise"}
                   /\ rq'[r].stale = rq[r].reddit]_vars

\* C8 witness: an entry has been evicted after a failed probe, a later clear
\* has emptied the cache.
C8_Reached ==
    /\ cleared /\ get_cached_client_count = 0
    /\ \E r \in Requests : rq[r].stale # 0 /\ rq[r].attempted /\ ~rq[r].disturbed

\* The key of a header request holds more than the prefix of the bearer.
KeyIncludesAppId(q) ==
    q.cache_key # REDDIT_ \o Take(q.access_token, HeaderKeyPrefixLen)

HeaderRequests ==
    {r \in Requests : rq[r].fn = "get_reddit_client_with_headers"}

\* C9 as claimed: in get_reddit_client_with_headers the key includes the
\* app-id prefix exactly when the new client is built with the credentials.
C9_KeyIffCredentials ==
    \A r \in HeaderRequests :
        BuiltOwn(r) =>
            (KeyIncludesAppId(rq[r]) = handles[rq[r].reddit].with_credentials)

\* C9 amended: the key includes the app-id prefix exactly when the client id
\* header is non-empty; a new client is built with the credentials exactly
\* when the client id and the client secret are both non-empty (so a client
\* built with credentials has a key with the prefix, not the converse);
\* without both headers the key is derived from the bearer alone and the
\* client is token-only; the new handle carries the bearer as its access
\* token from before its probe.
C9_KeyAndConstruction ==
    \A r \in HeaderRequests :
        LET q == rq[r]
            bearer_only == REDDIT_ \o Take(q.access_token, 16)
        IN  /\ KeyIncludesAppId(q) = Truthy(q.x_reddit_client_id)
            /\ Truthy(q.x_reddit_client_id)
               => q.cache_key = bearer_only \o <<"_">> \o Take(q.x_reddit_client_id[1], 8)
            /\ ~Truthy(q.x_reddit_client_id) => q.cache_key = bearer_only
            /\ BuiltOwn(r) =>
                  /\ handles[q.reddit].with_credentials
                     = (Truthy(q.x_reddit_client_id) /\ Truthy(q.x_reddit_client_secret))
                  /\ handles[q.reddit].with_credentials => KeyIncludesAppId(q)
                  /\ handles[q.reddit].access_token = q.access_token

\* C9 witness: a client id without a secret: the key includes the app id and
\* the new handle, whose probe is awaited, is token-only and carries the bearer.
C9_Reached ==
    \E r \in HeaderRequests :
        /\ rq[r].pc = "probe_new" /\ BuiltOwn(r)
        /\ Truthy(rq[r].x_reddit_client_id) /\ ~Truthy(rq[r].x_reddit_client_secret)
        /\ KeyIncludesAppId(rq[r])
        /\ ~handles[rq[r].reddit].with_credentials
        /\ handles[rq[r].reddit].access_token = rq[r].access_token

(***************************************************************************)
(* Properties of the codec                                                 *)
(***************************************************************************)
\* The decoding op has just been applied to a token that how issued.
Applied(op, how) == out.op = op /\ origin = how

NotLegacyKind ==
    \/ origin = "create_refresh_token"
    \/ origin = "create_access_token" /\ TokenType(token.payload) # "reddit_access"

\* jwt.decode has not yet reached the exp of the token at hand.
Unexpired == now <= token.payload["exp"]

\* C11 as claimed: extract_reddit_credentials applied to any token that
\* create_refresh_token issued, or to a token with any other token_type, fails
\* with 401 'Invalid token type' and returns no credential fields.
C11_WrongKindInvalidType ==
    (out.op = "extract_reddit_credentials" /\ NotLegacyKind)
    => (/\ out.status = 401
        /\ out.detail = "Invalid token type"
        /\ DOMAIN out.value = {})

\* C11 amended: extract_reddit_credentials applied to a token that
\* create_refresh_token issued, or to a token with any other token_type,
\* always fails with 401 and returns no credential fields; the detail is
\* 'Invalid token type' until the token expires and 'Could not validate
\* credentials' afterwards, because the expiry is checked before the type.
C11_WrongKindFailsClosed ==
    (out.op = "extract_reddit_credentials" /\ NotLegacyKind)
    => (/\ out.status = 401
        /\ DOMAIN out.value = {}
        /\ out.detail = IF Unexpired THEN "Invalid token type"
                        ELSE "Could not validate credentials")

\* C11 witness: the legacy extractor has refused, for its type, a token of
\* create_refresh_token that is complete and has not expired.
C11_Reached ==
    /\ Applied("extract_reddit_credentials", "create_refresh_token")
    /\ Unexpired /\ now > 0
    /\ out.status = 401 /\ out.detail = "Invalid token type"
    /\ FirstMissing(RefreshFields, token.payload) = ""

\* C12: round trip.  Until the token expires, extract_refresh_token_credentials
\* returns, field for field, the credential set (client_id, client_secret,
\* user_agent, refresh_token) that create_refresh_token was given, and
\* extract_reddit_credentials returns the credential set (client_id,
\* client_secret, username, password, user_agent) that create_reddit_token
\* was given.
C12_RoundTrip ==
    /\ (Applied("extract_refresh_token_credentials", "create_refresh_token")
        /\ Unexpired)
       => (/\ out.status = 200
           /\ DOMAIN out.value
              = {"client_id", "client_secret", "user_agent", "refresh_token"}
           /\ \A f \in DOMAIN out.value : out.value[f] = given[f])
    /\ (Applied("extract_reddit_credentials", "create_reddit_token") /\ Unexpired)
       => (/\ out.status = 200
           /\ DOMAIN out.value
              = {"client_id", "client_secret", "username", "password",
                 "user_agent"}
           /\ \A f \in DOMAIN out.value : out.value[f] = given[f])

\* C12 witness: a refresh credential set has come back from its token, in the
\* last minute before the token expires.
C12_Reached ==
    /\ Applied("extract_refresh_token_credentials", "create_refresh_token")
    /\ out.status = 200 /\ out.value = given
    /\ given.refresh_token = "rt2" /\ given.client_id = "cid2"
    /\ now = token.payload["exp"]

\* verify_token has just been applied to a token that create_access_token
\* issued with a ttl that is not None.
VerifiedWithTtl ==
    /\ Applied("verify_token", "create_access_token")
    /\ given.ttl >= 0

\* the detail verify_token gives for a token signed with another key
BadSignatureDetail ==
    verify_token([token EXCEPT !.key = "another key"], now).detail

\* C13 as claimed: a token that create_access_token issued at t0 with a ttl
\* T >= 0 (T = 0 included) is accepted by verify_token at every time
\* t < t0 + T, and at every time t >= t0 + T it is rejected with an error
\* that is specific to expiry.
C13_TtlWindow ==
    VerifiedWithTtl
    => IF now < given.at + given.ttl
       THEN out.status = 200
       ELSE /\ out.status = 401
            /\ out.detail # BadSignatureDetail

\* What the code does instead: a ttl of 0 counts as no ttl and gives the
\* default lifetime; the token is accepted up to and including the minute of
\* its exp; afterwards it is rejected with the same 401 detail as a token
\* with a bad signature.
C13_CodeWindow ==
    VerifiedWithTtl
    => LET T == IF given.ttl = 0 THEN ACCESS_TOKEN_EXPIRE_MINUTES ELSE given.ttl
       IN  IF now <= given.at + T
           THEN out.status = 200
           ELSE /\ out.status = 401
                /\ out.detail = BadSignatureDetail

\* Causes of failure, read off the token at hand.
BadSignature == token.key # SECRET_KEY \/ token.signed # token.payload
Expired == token.payload["exp"] < now
Extractors == {"extract_refresh_token_credentials", "extract_reddit_credentials"}

\* The required-field order the extractor op goes by for the token at hand,
\* <<>> when the extractor does not accept the token_type.
OrderOf(op) ==
    LET type == TokenType(token.payload)
    IN  IF type = "reddit_access" THEN LegacyFields
        ELSE IF type = "reddit_refresh_access"
                /\ op = "extract_refresh_token_credentials" THEN RefreshFields
        ELSE <<>>

\* The payload lacks fields[i] and has every field before it.
FirstLacking(fields, i) ==
    /\ fields[i] \notin DOMAIN token.payload
    /\ \A j \in 1..(i - 1) : fields[j] \in DOMAIN token.payload

\* C14: every failure of verify_token, extract_refresh_token_credentials and
\* extract_reddit_credentials is an HTTP 401 that returns no credential
\* fields; a bad signature, an expired token, a token_type the extractor does
\* not accept and a missing required field each are such a failure; and when
\* a required field is missing from an otherwise good token the detail names
\* the first missing field in the extractor's required-field order.
C14_FailuresAre401 ==
    out.op # "-"
    => /\ out.status \in {200, 401}
       /\ out.status # 200 => DOMAIN out.value = {}
       /\ (BadSignature \/ Expired) => out.status = 401
       /\ out.op \in Extractors
          => LET fields == OrderOf(out.op)
             IN  /\ fields = <<>> => out.status = 401
                 /\ \A i \in 1..Len(fields) :
                        (FirstLacking(fields, i) /\ ~BadSignature /\ ~Expired)
                        => /\ out.status = 401
                           /\ out.detail
                              = "Token missing required field: " \o fields[i]

\* C14 witness: the refresh extractor has refused a well-signed, unexpired
\* token that lacks two required fields, naming the one that comes first.
C14_Reached ==
    /\ Applied("extract_refresh_token_credentials", "create_access_token")
    /\ ~Expired
    /\ {"reddit_client_secret", "reddit_user_agent"} \cap DOMAIN token.payload = {}
    /\ out.status = 401
    /\ out.detail = "Token missing required field: reddit_client_secret"
    /\ DOMAIN out.value = {}

(***************************************************************************)
(* Properties of the auth endpoints                                        *)
(***************************************************************************)
Ended(fn) == fl.fn = fn /\ fl.pc = "done"
UpstreamFailed == fl.exchange \in {"raises", "none"} \/ fl.probe \in {"raises", "none"}
ConstructorRaised == fl.construct = "raises"

\* the endpoints that exchange a code, take credentials or take a token
CredentialFlows ==
    {"oauth2_callback", "refresh_access_token", "validate_token",
     "backup_oauth2_callback", "login_with_refresh_token", "login",
     "backup_validate_token"}

\* C15 as claimed: every auth endpoint (callback, refresh and
\* login-refresh-token, login, validate) has closed, when it ends, every
\* transient client handle it constructed, whichever way it ends.
C15_EveryHandleClosed ==
    (fl.pc = "done" /\ fl.fn \in CredentialFlows)
    => (fl.reddit > 0 => fl.closes >= 1)

\* What holds instead: the only invocation that ends with its handle open is
\* the oauth2_callback of auth_endpoints_backup.py whose code exchange raised.
C15_ClosedUnlessExchangeRaised ==
    (fl.pc = "done" /\ fl.fn \in CredentialFlows)
    => ((fl.reddit > 0 /\ fl.closes = 0)
        <=> (fl.fn = "backup_oauth2_callback" /\ fl.exchange = "raises"))

\* the endpoints whose 200 response carries a token
TokenFlows ==
    {"oauth2_callback", "refresh_access_token", "backup_oauth2_callback",
     "login_with_refresh_token", "login"}

\* C16 as claimed: a token-issuing endpoint (callback, refresh and
\* login-refresh-token, login) answers with a token only if its identity
\* probe, earlier in the invocation, returned an identity that is not None;
\* a code exchange followed by a probe that raises or gives None never
\* produces a token.
C16_TokenOnlyAfterIdentity ==
    (fl.fn \in TokenFlows /\ fl.pc = "done"
     /\ fl.status = 200 /\ "access_token" \in DOMAIN fl.body)
    => (fl.probes = 1 /\ fl.probe \in Usernames)

\* What holds instead: only the oauth2_callback of auth_endpoints.py answers
\* with a token after a probe that gave None, and no endpoint does after a
\* probe that raised.
C16_TokenWithoutIdentityOnlyLiveCallback ==
    (fl.fn \in TokenFlows /\ fl.pc = "done"
     /\ fl.status = 200 /\ "access_token" \in DOMAIN fl.body)
    => \/ fl.probe \in Usernames
       \/ fl.fn = "oauth2_callback" /\ fl.probe = "none"
                /\ fl.body.reddit_username = "unknown"

ValidateFlows == {"validate_token", "backup_validate_token"}

\* C17 as claimed: the validate endpoint never ends in an HTTP error; it
\* answers 200 with valid=false and a non-empty error string for every token
\* that is expired, tampered, of the wrong kind or rejected upstream, and
\* with valid=true and the identity only when the probe succeeded.
C17_ValidateNeverThrows ==
    (fl.fn \in ValidateFlows /\ fl.pc = "done")
    => /\ fl.status = 200
       /\ IF fl.body.valid
          THEN fl.probe \in Usernames /\ fl.body.username = fl.probe
          ELSE fl.body.error \notin {"", "None"}

\* What holds instead: validate_token of auth_endpoints.py behaves as
\* claimed, and validate_token of auth_endpoints_backup.py answers 401 for
\* every failure and 200 with valid=true only when the probe succeeded.
C17_LiveValidateNeverThrows ==
    /\ Ended("validate_token")
       => /\ fl.status = 200
          /\ IF fl.body.valid
             THEN fl.probe \in Usernames /\ fl.body.username = fl.probe
             ELSE fl.body.error \notin {"", "None"}
    /\ Ended("backup_validate_token")
       => IF fl.probe \in Usernames
          THEN fl.status = 200 /\ fl.body.valid /\ fl.body.username = fl.probe
          ELSE fl.status = 401

\* The bearer that validate_token of auth_endpoints_backup.py was given is a
\* token as how issued it, not expired when the endpoint decoded it.
Presented(how) ==
    /\ Ended("backup_validate_token")
    /\ fl.request.origin = how
    /\ fl.request.at <= fl.request.credentials.payload["exp"]

\* the client was constructed if the endpoint came to it, and the upstream
\* accepted what it was asked
Accepted == ~ConstructorRaised /\ ~UpstreamFailed

\* C18 as claimed: validate decodes a session token with the extractor of
\* its kind, so an unexpired token of create_refresh_token whose credentials
\* the upstream accepts is reported valid=true, as an unexpired token of
\* create_reddit_token is.
C18_RefreshTokenValidates ==
    /\ (Presented("create_refresh_token") /\ Accepted)
       => (fl.status = 200 /\ fl.body.valid)
    /\ (Presented("create_reddit_token") /\ Accepted)
       => (fl.status = 200 /\ fl.body.valid)

\* What holds instead: an unexpired token of create_reddit_token is reported
\* valid=true when the probe succeeds, and an unexpired token of
\* create_refresh_token is refused with 401 'Invalid token type' before any
\* client is constructed or any call of the upstream is made.
C18_RefreshTokenRefused ==
    /\ (Presented("create_reddit_token") /\ Accepted)
       => (fl.status = 200 /\ fl.body.valid)
    /\ Presented("create_refresh_token")
       => (/\ fl.status = 401 /\ fl.detail = "Invalid token type"
           /\ fl.reddit = 0 /\ fl.probes = 0)

\* C19: login_with_refresh_token whose probe returned an identity answers
\* 200 with token_type 'bearer', reddit_username equal to that identity,
\* expires_in equal to 43200, and an access_token of the refresh kind from
\* which extract_refresh_token_credentials, until the token expires, gives
\* back exactly the credentials of the request.
C19_LoginRefreshTokenResponse ==
    (Ended("login_with_refresh_token") /\ fl.probe \in Usernames)
    => /\ fl.status = 200
       /\ fl.body.token_type = "bearer"
       /\ fl.body.reddit_username = fl.probe
       /\ fl.body.expires_in = 43200
       /\ LET access_token == fl.body.access_token
              exp == access_token.payload["exp"]
              t == IF now <= exp THEN now ELSE exp
              creds == extract_refresh_token_credentials(access_token, t)
          IN  /\ TokenType(access_token.payload) = "reddit_refresh_access"
              /\ creds.status = 200
              /\ DOMAIN creds.value
                 = {"client_id", "client_secret", "user_agent", "refresh_token"}
              /\ \A k \in DOMAIN creds.value : creds.value[k] = fl.request[k]

\* C19 witness: login_with_refresh_token has answered 200 to the second
\* client's second refresh token, for the identity bob, and time has passed
\* since.
C19_Reached ==
    /\ Ended("login_with_refresh_token")
    /\ fl.status = 200 /\ fl.probe = "bob" /\ fl.body.reddit_username = "bob"
    /\ fl.request.refresh_token = "rt2" /\ fl.request.client_id = "cid2"
    /\ now > fl.body.access_token.payload["exp"] - ACCESS_TOKEN_EXPIRE_MINUTES

\* C20 as claimed: in auth_endpoints_backup.py a failure of the code exchange
\* or of the identity probe makes oauth2_callback answer 400, a rejection by
\* the upstream makes login_with_refresh_token and login answer 401, no
\* failure of the upstream becomes a 5xx, and no upstream call is made twice.
C20_DocumentedStatuses ==
    /\ fl.exchanges <= 1 /\ fl.probes <= 1
    /\ (Ended("backup_oauth2_callback") /\ UpstreamFailed) => fl.status = 400
    /\ (Ended("login_with_refresh_token") /\ UpstreamFailed) => fl.status = 401
    /\ (Ended("login") /\ UpstreamFailed) => fl.status = 401

\* What holds instead: the same, except that oauth2_callback answers 500
\* when reddit.auth.authorize raises.
C20_StatusesButRaisedExchange ==
    /\ fl.exchanges <= 1 /\ fl.probes <= 1
    /\ (Ended("backup_oauth2_callback") /\ UpstreamFailed)
       => fl.status = IF fl.exchange = "raises" THEN 500 ELSE 400
    /\ (Ended("login_with_refresh_token") /\ UpstreamFailed) => fl.status = 401
    /\ (Ended("login") /\ UpstreamFailed) => fl.status = 401

\* What a reader of the URL sees: unquote_plus and parse_qs.
Unescape(h1, h2) ==
    IF <<h1, h2>> = <<"2", "B">> THEN "+"
    ELSE IF <<h1, h2>> = <<"2", "6">> THEN "&"
    ELSE IF <<h1, h2>> = <<"3", "D">> THEN "="
    ELSE IF <<h1, h2>> = <<"2", "5">> THEN "%"
    ELSE IF <<h1, h2>> = <<"2", "A">> THEN "*"
    ELSE "?"

RECURSIVE unquote_plus(_)
unquote_plus(e) ==
    IF e = <<>> THEN <<>>
    ELSE IF Head(e) = "+" THEN <<" ">> \o unquote_plus(Tail(e))
    ELSE IF Head(e) = "%" /\ Len(e) >= 3
    THEN <<Unescape(e[2], e[3])>> \o unquote_plus(SubSeq(e, 4, Len(e)))
    ELSE <<Head(e)>> \o unquote_plus(Tail(e))

\* the pairs of the query, split at every '&'
RECURSIVE SplitPairs(_, _)
SplitPairs(q, pair) ==
    IF q = <<>> THEN <<pair>>
    ELSE IF Head(q) = "&" THEN <<pair>> \o SplitPairs(Tail(q), <<>>)
    ELSE SplitPairs(Tail(q), Append(pair, Head(q)))

\* the values the query gives for key
QueryValues(q, key) ==
    LET pairs == SplitPairs(q, <<>>)
    IN  {unquote_plus(SubSeq(pairs[i], 3, Len(pairs[i]))) :
            i \in {j \in 1..Len(pairs) :
                      Len(pairs[j]) >= 2 /\ pairs[j][1] = key /\ pairs[j][2] = "="}}

UrlFlows == {"get_authorization_url", "backup_get_authorization_url"}
UrlReturned == fl.fn \in UrlFlows /\ fl.pc = "done" /\ fl.status = 200

\* what the claim says of the URL apart from the state
UrlCarriesRequest ==
    LET url == fl.body.authorization_url
        req == fl.request
    IN  /\ url.base = "https://www.reddit.com/api/v1/authorize"
        /\ QueryValues(url.query, "state") = {fl.body.state}
        /\ QueryValues(url.query, "client_id") = {<<req.client_id>>}
        /\ QueryValues(url.query, "response_type") = {<<"code">>}
        /\ QueryValues(url.query, "redirect_uri") = {<<req.redirect_uri>>}
        /\ QueryValues(url.query, "duration") = {<<req.duration>>}
        /\ QueryValues(url.query, "scope") = {JoinSpace(req.scopes)}

\* C21 as claimed: the state in the response of get_authorization_url is the
\* state embedded in the URL; a state that the caller supplies is used
\* unchanged, and when none is supplied a generated state of at least 32
\* characters is used; the URL carries client_id, response_type=code,
\* redirect_uri, duration and the space-joined scopes against the fixed
\* authorize endpoint.
C21_SuppliedStateUnchanged ==
    UrlReturned
    => /\ UrlCarriesRequest
       /\ IF fl.request.state # NoHeader
          THEN fl.body.state = fl.request.state[1]
          ELSE Len(fl.body.state) >= 32

\* C21 amended: as claimed, except that only a non-empty supplied state is
\* used unchanged; an empty state counts as none and is replaced by a
\* generated one of at least 32 characters.
C21_NonEmptyStateUnchanged ==
    UrlReturned
    => /\ UrlCarriesRequest
       /\ IF fl.request.state # NoHeader /\ fl.request.state[1] # <<>>
          THEN fl.body.state = fl.request.state[1]
          ELSE Len(fl.body.state) >= 32

\* C21 witness: get_authorization_url has returned a URL for a supplied
\* state that holds characters the URL has to escape, with two scopes.
C21_Reached ==
    /\ UrlReturned /\ fl.fn = "get_authorization_url"
    /\ fl.body.state = <<"a", " ", "b", "+">>
    /\ fl.request.scopes = <<"read", "identity">>
    /\ QueryValues(fl.body.authorization_url.query, "state") = {fl.body.state}

\* the invocation f, had its request carried the state s
WithState(f, s) == [f EXCEPT !.request.state = s]

\* One step of a callback and the same step, with the same answers of the
\* upstream, of a callback whose request carries the state s: the two end in
\* invocations that differ in the state of the request only, so status,
\* payload and closed handles are the same.
CallbackStepIgnoresState(s) ==
    /\ fl'.fn = "oauth2_callback" /\ fl'.pc \in {"exchange", "done"} /\ Free
       => \A c \in BOOLEAN :
            fl' = callback_begun(fl'.request, c)
            => callback_begun([fl'.request EXCEPT !.state = s], c) = WithState(fl', s)
    /\ At("oauth2_callback", "exchange")
       => \A x \in AuthorizeOutcomes :
            fl' = callback_authorized(fl, x)
            => callback_authorized(WithState(fl, s), x) = WithState(fl', s)
    /\ At("oauth2_callback", "probe")
       => \A u \in ProbeOutcomes, built \in BOOLEAN :
            fl' = callback_probed(fl, u, built)
            => callback_probed(WithState(fl, s), u, built) = WithState(fl', s)
    /\ fl'.fn = "backup_oauth2_callback" /\ fl'.pc \in {"exchange", "done"} /\ Free
       => \A c \in BOOLEAN :
            fl' = backup_callback_begun(fl'.request, c)
            => backup_callback_begun([fl'.request EXCEPT !.state = s], c)
               = WithState(fl', s)
    /\ At("backup_oauth2_callback", "exchange")
       => \A x \in AuthorizeOutcomes :
            fl' = backup_callback_authorized(fl, x)
            => backup_callback_authorized(WithState(fl, s), x) = WithState(fl', s)
    /\ At("backup_oauth2_callback", "probe")
       => \A u \in ProbeOutcomes :
            fl' = backup_callback_probed(fl, u, now)
            => backup_callback_probed(WithState(fl, s), u, now) = WithState(fl', s)

\* C22: Flow A keeps no server-side state. A step of get_authorization_url
\* changes nothing of the process (client cache, handles, requests, tokens),
\* and every step of oauth2_callback does, for a request that differs in the
\* state field only (another state, one never issued, or none), the same
\* with the same upstream answers: status, token payload and closed handles
\* do not depend on the state.
C22_CallbackIgnoresState ==
    [][/\ fl' # fl /\ fl'.fn \in UrlFlows => UNCHANGED <<auth_vars, jwt_vars>>
       /\ fl' # fl => \A s \in CallbackStates : CallbackStepIgnoresState(s)]_vars

\* C22 witness: a callback whose request carries a state that was never
\* issued has answered 200 with a token payload and closed its handle.
C22_Reached ==
    /\ Ended("oauth2_callback") /\ fl.status = 200
    /\ fl.request.state = Header(<<"f">>)
    /\ fl.closes = 1

\* C23: no step of an auth flow (authorize-url, callback, refresh or
\* login-refresh-token, login, validate) adds, removes or replaces an entry
\* of the client cache, and none touches a handle of the authenticators: the
\* handle a flow builds is never one the cache stores.
C23_FlowsLeaveCache ==
    [][fl' # fl => cache' = cache /\ handles' = handles]_vars

\* C23 witness: an auth flow that built a handle of its own has ended while
\* the cache stores a handle.
C23_Reached ==
    /\ fl.pc = "done" /\ fl.reddit > 0
    /\ DOMAIN cache # {}

\* how far a request is: each await of the authenticator is one position
Position(pc) ==
    IF pc = "idle" THEN 0
    ELSE IF pc = "probe_cached" THEN 1
    ELSE IF pc = "probe_new" THEN 2
    ELSE 3

\* the handles request r constructed
Constructed(r) == {h \in Handles : handles[h].owner = r}

\* C24: an invocation of get_reddit_client or get_reddit_client_with_headers
\* constructs at most one client; each of its steps takes it forward, from
\* the probe of the cached handle to the probe of the new handle to the end,
\* so it probes at most twice and never loops or retries; and, as every
\* upstream call returns or raises, it ends, with a handle or with a 401.
C24_BoundedAndTerminates ==
    /\ [](\A r \in Requests : Cardinality(Constructed(r)) <= 1)
    /\ [][\A r \in Requests :
            /\ Position(rq'[r].pc) >= Position(rq[r].pc)
            /\ (rq'[r].cached_probe # rq[r].cached_probe
                \/ rq'[r].new_probe # rq[r].new_probe
                \/ Cardinality(Constructed(r))' # Cardinality(Constructed(r)))
               => Position(rq'[r].pc) > Position(rq[r].pc)]_vars
    /\ \A r \in Requests :
            Started(r) ~> (/\ Done(r)
                           /\ \/ rq[r].status = 200 /\ rq[r].result \in Handles
                              \/ rq[r].status = 401 /\ rq[r].result = 0)

\* C24 witness: a request has ended after two probes, one of the cached
\* handle and one of the handle it constructed.
C24_Reached ==
    \E r \in Requests :
        /\ Done(r) /\ rq[r].cached_probe \in {"none", "raise"}
        /\ rq[r].new_probe # "-" /\ Cardinality(Constructed(r)) = 1

\* C25: when the probe of a cached handle fails, the step that evicts takes
\* out of the cache no entry that holds another handle: a handle that a
\* concurrent request probed and stored under the same key in the meantime
\* stays.
C25_EvictsOnlyProbedHandle ==
    [][\A r \in Requests :
        (rq[r].pc = "probe_cached" /\ rq'[r].stale # 0)
        => \A k \in DOMAIN cache :
             cache[k] # rq[r].reddit => (k \in DOMAIN cache' /\ cache'[k] = cache[k])]_vars

\* what holds instead: the failed probe removes nothing but the entry of the
\* request's own key, whichever handle it holds by then
C25_EvictsOwnKeyOnly ==
    [][\A r \in Requests :
        (rq[r].pc = "probe_cached" /\ rq'[r].stale # 0)
        => \A k \in DOMAIN cache :
             k # rq[r].cache_key => (k \in DOMAIN cache' /\ cache'[k] = cache[k])]_vars

\* C26: the handle an authenticator returns to a request carries the whole
\* bearer that the request presented, and in the header variant it was built
\* with the app credentials of that request (with credentials exactly when
\* the request gave an id and a secret).
C26_HandleCarriesOwnBearer ==
    \A r \in Requests :
        (Done(r) /\ rq[r].status = 200)
        => /\ handles[rq[r].result].access_token = rq[r].access_token
           /\ rq[r].fn = "get_reddit_client_with_headers"
              => handles[rq[r].result].with_credentials
                 = built_with_credentials(rq[r].x_reddit_client_id,
                                          rq[r].x_reddit_client_secret)

\* what holds instead: the returned handle carries a bearer that agrees with
\* the request's on the prefix the key is made of
C26_HandleSharesKey ==
    \A r \in Requests :
        (Done(r) /\ rq[r].status = 200)
        => handles[rq[r].result].cache_key = rq[r].cache_key

\* the requests and the clears ran one after another, and none is under way
Sequential == \A r \in Requests : ~InFlight(r) /\ ~rq[r].disturbed

\* C27: when requests and clears ran strictly one after another and no
\* request is in flight, every handle the authenticators constructed is
\* stored in the cache or has been closed.
C27_NoHandleLeaked ==
    Sequential
    => \A h \in Handles : h \in Range(cache) \/ handles[h].closes > 0

\* what holds instead: a handle that is neither stored nor closed is one
\* that had been stored, and was dropped by an eviction or a clear
C27_LeakedWereStored ==
    Sequential
    => \A h \in Handles :
         h \in Range(cache) \/ handles[h].closes > 0 \/ handles[h].probed_ok

\* C28: in every reachable state, whatever the interleaving, no handle on
\* which close() has been called is stored in the cache, and none has been
\* returned by an authenticator to an endpoint.
C28_ClosedNeitherStoredNorReturned ==
    \A h \in Handles :
        handles[h].closes > 0
        => /\ h \notin Range(cache)
           /\ \A r \in Requests : rq[r].result # h

\* C28 witness: two requests for one key ran at the same time; one closed
\* the handle it built after its probe failed, the other returned its own
\* handle, which the cache stores.
C28_Reached ==
    \E r1, r2 \in Requests :
        /\ Done(r1) /\ Done(r2) /\ rq[r1].disturbed
        /\ rq[r1].cache_key = rq[r2].cache_key
        /\ rq[r1].status = 401 /\ rq[r1].new_probe \in {"none", "raise"}
        /\ handles[rq[r1].reddit].closes > 0
        /\ rq[r2].status = 200 /\ rq[r2].result \in Range(cache)

\* the flows that mint a session token
SessionFlows == {"backup_oauth2_callback", "login_with_refresh_token", "login"}

\* the step answers 200 with a session token
Mints == fl' # fl /\ fl'.fn \in SessionFlows /\ fl'.pc = "done" /\ fl'.status = 200

\* C29: whatever ACCESS_TOKEN_EXPIRE_MINUTES is configured, the expires_in
\* that callback, login-refresh-token and login return is the number of
\* seconds from the issuance to the exp claim of the token they minted.
C29_ExpiresInMatchesExp ==
    [][Mints => fl'.body.expires_in
                = (fl'.body.access_token.payload["exp"] - now) * 60]_vars

\* what holds instead: expires_in is 43200 whatever is configured, which is
\* the lifetime of the token when the configuration is the default
C29_ExpiresInIsDefault ==
    [][Mints => /\ fl'.body.expires_in = DefaultExpireMinutes * 60
                /\ fl'.body.access_token.payload["exp"] - now
                   = ACCESS_TOKEN_EXPIRE_MINUTES]_vars

\* C30: an HTTPException that a content endpoint raises on purpose reaches
\* the client with its own status: get_comment_parent answers 404 when the
\* parent is a submission, get_current_user answers 401 when the probe gives
\* no identity.
C30_OwnStatusReachesClient ==
    /\ (Ended("get_comment_parent") /\ fl.parent = "submission")
       => fl.status = HTTP_404_NOT_FOUND
    /\ (Ended("get_current_user") /\ fl.probe = "none")
       => fl.status = HTTP_401_UNAUTHORIZED

\* what holds instead: both answer 400, with the status of the HTTPException
\* in the text of the error only
C30_AnsweredWith400 ==
    /\ (Ended("get_comment_parent") /\ fl.parent = "submission")
       => /\ fl.status = HTTP_400_BAD_REQUEST
          /\ fl.detail = "Failed to get comment parent: 404: Parent is a submission, not a comment"
    /\ (Ended("get_current_user") /\ fl.probe = "none")
       => /\ fl.status = HTTP_400_BAD_REQUEST
          /\ fl.detail = "Failed to get user info: 401: Authentication failed"

====
